---- MODULE Spec2Model ----
(***************************************************************************)
(* Model of the back-testing engine of src/backtester/src/backtester.py:   *)
(* OrderBook, PositionTracker (FIFO lot ledger) and MultiProductBacktester *)
(* (matching, position limits, tick replay, end-of-run liquidation).       *)
(*                                                                         *)
(* Money.  Book and trade prices are integers; the mid price              *)
(* (best_bid + best_ask) / 2 is a float with a possible fraction of one    *)
(* half.  Every price handed to the tracker and every PnL amount is kept   *)
(* here in units of 1/PriceScale, so that the float arithmetic of the      *)
(* source is exact integer arithmetic in the model.                        *)
(***************************************************************************)
EXTENDS Integers, Sequences, FiniteSets, TLC

VARIABLES
    \* ---- a PositionTracker on its own (specification SpecTracker)
    tracker,            \* the PositionTracker object
    prev_tracker,       \* its fields before the last add_trade call
    last_call,          \* <<quantity, price>> of the last add_trade call, <<>> before any
    calls,              \* number of add_trade calls made
    \* ---- a MultiProductBacktester run (specification Spec)
    pc,                 \* where run() stands
    products,           \* self.products
    MAX_LIMIT,          \* the trader's MAX_LIMIT, returned as max_pos at every tick
    timestamps,         \* self.timestamps
    k,                  \* number of timestamps replayed so far
    prices,             \* self.prices[product][ts] at the timestamp being replayed
    trades,             \* self.trades[product][ts] at the timestamp being replayed
    orderbooks,         \* self.orderbooks
    positions,          \* self.positions
    pnls,               \* self.pnls
    position_trackers,  \* self.position_trackers
    pending,            \* the tick's orders still to be matched, in processing order
    max_pos,            \* the override returned by trader.run at this tick
    position_histories,
    pnl_histories,
    realized_pnl_histories,
    unrealized_pnl_histories,
    total_pnl_histories,
    mid_price_histories,
    overall_pnl_history,
    overall_realized_pnl_history,
    overall_unrealized_pnl_history,
    \* ---- records of what the run did, read by the properties only
    tick_start,         \* books, trades, positions, pnls, trackers as the tick's matching began,
                        \* the books the tick's rebuild started from, the tick's all_orders
                        \* and what the loaded data holds at the tick's timestamp
    tick_fills,         \* every fill of the tick, in order
    last_match,         \* the last order processed: the state before it and its fills
    liquidation,        \* the state before the auto-clear and its add_trade calls
    loaded,             \* per product, how much of its price rows and of its trades
                        \* load_data has read: "none", "part" or "all"
    invocations,        \* the timestamps trader.run was called with, in order
    stray_trades        \* self.trades[product][ts] at a timestamp ts that no price file holds

trackerVars == <<tracker, prev_tracker, last_call, calls>>

histVars == <<position_histories, pnl_histories, realized_pnl_histories,
              unrealized_pnl_histories, total_pnl_histories, mid_price_histories,
              overall_pnl_history, overall_realized_pnl_history,
              overall_unrealized_pnl_history>>

bookVars == <<orderbooks, trades, positions, pnls, position_trackers>>

engineVars == <<pc, products, MAX_LIMIT, timestamps, k, prices, pending, max_pos,
                bookVars, histVars, tick_start, tick_fills, last_match, liquidation,
                loaded, invocations, stray_trades>>

vars == <<trackerVars, engineVars>>

\* ------------------------------------------------------------------ bounds

\* add_trade calls made on the stand-alone tracker
MaxCalls == 4

\* ------------------------------------------------------------------ money

\* the divisor of the mid price, (best_bid + best_ask) / 2
PriceScale == 2

\* an integer price in money units
Px(p) == p * PriceScale

Abs(x) == IF x < 0 THEN -x ELSE x

Min(a, b) == IF a <= b THEN a ELSE b

Max(a, b) == IF a >= b THEN a ELSE b

\* ------------------------------------------------------------------ PositionTracker

\* PositionTracker.__init__
NewTracker ==
    [position |-> 0, realized_pnl |-> 0, long_queue |-> <<>>, short_queue |-> <<>>]

\* a buy loop that closes a short lot fully only when the remainder exceeds it
\* (`if remaining_qty > short_qty`)
RECURSIVE ProcessBuyLoopStrict(_, _, _)
ProcessBuyLoopStrict(t, remaining_qty, price) ==
    IF remaining_qty > 0 /\ t.short_queue # <<>>
    THEN LET short_qty   == t.short_queue[1][1]
             short_price == t.short_queue[1][2]
         IN  IF remaining_qty > short_qty
             THEN ProcessBuyLoopStrict(
                      [t EXCEPT !.realized_pnl = @ + short_qty * (short_price - price),
                                !.short_queue = Tail(@)],
                      remaining_qty - short_qty, price)
             ELSE ProcessBuyLoopStrict(
                      [t EXCEPT !.realized_pnl = @ + remaining_qty * (short_price - price),
                                !.short_queue = [@ EXCEPT ![1] =
                                                    <<short_qty - remaining_qty, short_price>>]],
                      0, price)
    ELSE IF remaining_qty > 0
         THEN [t EXCEPT !.long_queue = Append(@, <<remaining_qty, price>>)]
         ELSE t

\* the while loop of _process_buy followed by its trailing append
RECURSIVE ProcessBuyLoop(_, _, _)
ProcessBuyLoop(t, remaining_qty, price) ==
    IF remaining_qty > 0 /\ t.short_queue # <<>>
    THEN LET short_qty   == t.short_queue[1][1]
             short_price == t.short_queue[1][2]
         IN  IF remaining_qty >= short_qty
             THEN ProcessBuyLoop(
                      [t EXCEPT !.realized_pnl = @ + short_qty * (short_price - price),
                                !.short_queue = Tail(@)],
                      remaining_qty - short_qty, price)
             ELSE ProcessBuyLoop(
                      [t EXCEPT !.realized_pnl = @ + remaining_qty * (short_price - price),
                                !.short_queue = [@ EXCEPT ![1] =
                                                    <<short_qty - remaining_qty, short_price>>]],
                      0, price)
    ELSE IF remaining_qty > 0
         THEN [t EXCEPT !.long_queue = Append(@, <<remaining_qty, price>>)]
         ELSE t

\* a buy that opens a long lot without closing the short lots first
ProcessBuyNoClose(t, quantity, price) ==
    IF quantity > 0
    THEN [t EXCEPT !.long_queue = Append(@, <<quantity, price>>)]
    ELSE t

\* a buy that realizes the closed short lots with the sign of a sell
ProcessBuySellSign(t, quantity, price) ==
    LET u == ProcessBuyLoop(t, quantity, price)
    IN  [u EXCEPT !.realized_pnl = t.realized_pnl - (u.realized_pnl - t.realized_pnl)]

\* a buy that adds its leftover to the tail long lot when the entry prices are equal
ProcessBuyMerging(t, quantity, price) ==
    LET u == ProcessBuyLoop(t, quantity, price)
        n == Len(u.long_queue)
    IN  IF n > Len(t.long_queue) /\ n >= 2 /\ u.long_queue[n - 1][2] = price
        THEN [u EXCEPT !.long_queue =
                 Append(SubSeq(@, 1, n - 2), <<@[n - 1][1] + @[n][1], price>>)]
        ELSE u

\* PositionTracker._process_buy
ProcessBuy(t, quantity, price) ==
    ProcessBuyLoop(t, quantity, price)

\* a sell loop whose trailing append also runs with nothing left
\* (`if remaining_qty >= 0`)
RECURSIVE ProcessSellLoopAppendingZero(_, _, _)
ProcessSellLoopAppendingZero(t, remaining_qty, price) ==
    IF remaining_qty > 0 /\ t.long_queue # <<>>
    THEN LET long_qty   == t.long_queue[1][1]
             long_price == t.long_queue[1][2]
         IN  IF remaining_qty >= long_qty
             THEN ProcessSellLoopAppendingZero(
                      [t EXCEPT !.realized_pnl = @ + long_qty * (price - long_price),
                                !.long_queue = Tail(@)],
                      remaining_qty - long_qty, price)
             ELSE ProcessSellLoopAppendingZero(
                      [t EXCEPT !.realized_pnl = @ + remaining_qty * (price - long_price),
                                !.long_queue = [@ EXCEPT ![1] =
                                                   <<long_qty - remaining_qty, long_price>>]],
                      0, price)
    ELSE [t EXCEPT !.short_queue = Append(@, <<remaining_qty, price>>)]

\* the while loop of _process_sell followed by its trailing append
RECURSIVE ProcessSellLoop(_, _, _)
ProcessSellLoop(t, remaining_qty, price) ==
    IF remaining_qty > 0 /\ t.long_queue # <<>>
    THEN LET long_qty   == t.long_queue[1][1]
             long_price == t.long_queue[1][2]
         IN  IF remaining_qty >= long_qty
             THEN ProcessSellLoop(
                      [t EXCEPT !.realized_pnl = @ + long_qty * (price - long_price),
                                !.long_queue = Tail(@)],
                      remaining_qty - long_qty, price)
             ELSE ProcessSellLoop(
                      [t EXCEPT !.realized_pnl = @ + remaining_qty * (price - long_price),
                                !.long_queue = [@ EXCEPT ![1] =
                                                   <<long_qty - remaining_qty, long_price>>]],
                      0, price)
    ELSE IF remaining_qty > 0
         THEN [t EXCEPT !.short_queue = Append(@, <<remaining_qty, price>>)]
         ELSE t

Reverse(s) == [i \in 1..Len(s) |-> s[Len(s) + 1 - i]]

\* a sell that closes the newest long lot first (LIFO)
ProcessSellLifo(t, quantity, price) ==
    LET u == ProcessSellLoop([t EXCEPT !.long_queue = Reverse(@)], quantity, price)
    IN  [u EXCEPT !.long_queue = Reverse(@)]

\* PositionTracker._process_sell
ProcessSell(t, quantity, price) ==
    ProcessSellLoop(t, quantity, price)

\* add_trade that moves the position by the unsigned quantity
AddTradeUnsigned(t, quantity, price) ==
    LET u == IF quantity > 0
             THEN ProcessBuy(t, quantity, price)
             ELSE ProcessSell(t, Abs(quantity), price)
    IN  [u EXCEPT !.position = @ + Abs(quantity)]

\* PositionTracker.add_trade
AddTrade(t, quantity, price) ==
    LET u == IF quantity > 0
             THEN ProcessBuy(t, quantity, price)
             ELSE ProcessSell(t, Abs(quantity), price)
    IN  [u EXCEPT !.position = @ + quantity]

RECURSIVE UnrealizedOf(_, _, _)
UnrealizedOf(queue, current_price, sign) ==
    IF queue = <<>> THEN 0
    ELSE sign * queue[1][1] * (current_price - queue[1][2])
         + UnrealizedOf(Tail(queue), current_price, sign)

\* PositionTracker.get_unrealized_pnl
GetUnrealizedPnl(t, current_price) ==
    UnrealizedOf(t.long_queue, current_price, 1)
    + UnrealizedOf(t.short_queue, current_price, -1)

\* ------------------------------------------------------------------ OrderBook

\* a function with one key set
Put(f, key, val) == [x \in DOMAIN f \cup {key} |-> IF x = key THEN val ELSE f[x]]

\* a function with one key deleted
Del(f, key) == [x \in DOMAIN f \ {key} |-> f[x]]

\* OrderBook.__init__
NewOrderBook == [buy_orders |-> <<>>, sell_orders |-> <<>>]

\* A CSV field is <<>> when empty and <<n>> when it holds the integer n; a level of a
\* market-data row is <<price field, volume field>>.
\* one side of the loop of update_from_price_row: levels 1..3 in order
RECURSIVE InsertLevels(_, _)
InsertLevels(levels, side) ==
    IF levels = <<>> THEN side
    ELSE LET price_field  == levels[1][1]
             volume_field == levels[1][2]
             volume       == IF volume_field # <<>> THEN volume_field[1] ELSE 0
         IN  InsertLevels(Tail(levels),
                          IF price_field # <<>>
                          THEN Put(side, price_field[1], volume)
                          ELSE side)

\* a rebuild that adds the row's volumes to the volumes already there
RECURSIVE AddLevels(_, _)
AddLevels(levels, side) ==
    IF levels = <<>> THEN side
    ELSE LET price_field  == levels[1][1]
             volume_field == levels[1][2]
             volume       == IF volume_field # <<>> THEN volume_field[1] ELSE 0
         IN  AddLevels(Tail(levels),
                       IF price_field # <<>>
                       THEN Put(side, price_field[1],
                                volume + (IF price_field[1] \in DOMAIN side
                                          THEN side[price_field[1]] ELSE 0))
                       ELSE side)

UpdateAccumulating(book, row) ==
    [buy_orders  |-> AddLevels(row.bid, book.buy_orders),
     sell_orders |-> AddLevels(row.ask, book.sell_orders)]

\* a rebuild that patches the row's levels into the levels already there
UpdateKeepingOld(book, row) ==
    [buy_orders  |-> InsertLevels(row.bid, book.buy_orders),
     sell_orders |-> InsertLevels(row.ask, book.sell_orders)]

\* OrderBook.update_from_price_row
UpdateFromPriceRow(book, row) ==
    [buy_orders  |-> InsertLevels(row.bid, <<>>),
     sell_orders |-> InsertLevels(row.ask, <<>>)]

SetMax(S) == CHOOSE x \in S : \A y \in S : y <= x

SetMin(S) == CHOOSE x \in S : \A y \in S : x <= y

\* sorted(S)
RECURSIVE Sorted(_)
Sorted(S) == IF S = {} THEN <<>> ELSE <<SetMin(S)>> \o Sorted(S \ {SetMin(S)})

\* sorted(S, reverse=True)
RECURSIVE SortedReverse(_)
SortedReverse(S) == IF S = {} THEN <<>> ELSE <<SetMax(S)>> \o SortedReverse(S \ {SetMax(S)})

\* the fallback price of get_mid_price
FALLBACK_PRICE == 10000

\* a mid price that falls back to the best price of the side that has levels
GetMidPriceOneSided(book) ==
    IF DOMAIN book.buy_orders = {} /\ DOMAIN book.sell_orders = {}
    THEN Px(FALLBACK_PRICE)
    ELSE IF DOMAIN book.sell_orders = {}
         THEN Px(SetMax(DOMAIN book.buy_orders))
         ELSE IF DOMAIN book.buy_orders = {}
              THEN Px(SetMin(DOMAIN book.sell_orders))
              ELSE ((SetMax(DOMAIN book.buy_orders) + SetMin(DOMAIN book.sell_orders))
                       * PriceScale) \div 2

\* MultiProductBacktester.get_mid_price, in money units
GetMidPrice(book) ==
    IF DOMAIN book.buy_orders = {} \/ DOMAIN book.sell_orders = {}
    THEN Px(FALLBACK_PRICE)
    ELSE LET best_bid == SetMax(DOMAIN book.buy_orders)
             best_ask == SetMin(DOMAIN book.sell_orders)
         IN  ((best_bid + best_ask) * PriceScale) \div 2

\* ------------------------------------------------------------------ position limits

\* MultiProductBacktester.POSITION_LIMIT
POSITION_LIMIT ==
    [p \in {"SHINX", "LUXRAY", "JOLTEON", "ASH", "MISTY", "SUDOWOODO", "ABRA", "DROWZEE"} |->
        CASE p = "SHINX" -> 50
          [] p = "LUXRAY" -> 250
          [] p = "JOLTEON" -> 350
          [] p = "ASH" -> 60
          [] p = "MISTY" -> 100
          [] p = "SUDOWOODO" -> 50
          [] p = "ABRA" -> 50
          [] p = "DROWZEE" -> 50]

\* An override returned by the strategy is <<>> for None and <<n>> for the integer n.
\* `if max_pos:`
Truthy(override) == override # <<>> /\ override[1] # 0

\* the lookup POSITION_LIMIT[product] raises KeyError
LimitLookupRaises(product, override) ==
    ~Truthy(override) /\ product \notin DOMAIN POSITION_LIMIT

\* a limit taken from the override whenever one is supplied (`if max_pos is not None:`)
LimitInForceAnyOverride(product, override) ==
    IF override # <<>> THEN override[1] ELSE POSITION_LIMIT[product]

\* the limit an order is held to: max_pos if truthy, else the table's
LimitInForce(product, override) ==
    IF Truthy(override) THEN override[1] ELSE POSITION_LIMIT[product]

\* the room of a buy computed with the sign of a sell
MaxAllowedSignSlip(order, current_position, limit) == current_position + limit

\* max_allowed: the room left in the direction of the order
MaxAllowed(order, current_position, limit) ==
    IF order.quantity > 0
    THEN limit - current_position
    ELSE current_position + limit

\* an order that is not clipped to the room
QtyUnclipped(order, max_allowed) == Abs(order.quantity)

\* qty_to_fill after the clip to max_allowed
QtyToFill(order, max_allowed) == Min(Abs(order.quantity), max_allowed)

\* ------------------------------------------------------------------ matching one order

\* +1 for a buy order, -1 for a sell order (a zero quantity takes the sell branch)
Side(order) == IF order.quantity > 0 THEN 1 ELSE -1

\* a fill booked at the order's own limit price
FillPriceAtLimit(order, counterparty_price) == Px(order.price)

\* the price a fill is booked at (sp, bp or trade.price), in money units
FillPrice(order, counterparty_price) == Px(counterparty_price)

\* the book prices a buy order would cross, worst first
CrossedPricesWorstFirst(order, book) ==
    IF order.quantity > 0
    THEN SortedReverse({p \in DOMAIN book.sell_orders : p <= order.price})
    ELSE Sorted({p \in DOMAIN book.buy_orders : p >= order.price})

\* sell_prices of a buy order, buy_prices of a sell order
CrossedPrices(order, book) ==
    IF order.quantity > 0
    THEN Sorted({p \in DOMAIN book.sell_orders : p <= order.price})
    ELSE SortedReverse({p \in DOMAIN book.buy_orders : p >= order.price})

\* The state threaded through the matching of one order:
\*   levels   the side of the book the order crosses (sell_orders for a buy)
\*   trades   the live list market_trades, each trade with the identity id
\*   position, pnl, tracker   self.positions[product], self.pnls[product], the tracker
\*   filled   the order's filled quantity
\*   fills    the add_trade calls made, each with its source

\* a book fill that leaves the level's volume as it was
BookFillNoDecrement(m, order, price, fill) ==
    LET booked == FillPrice(order, price)
    IN  [m EXCEPT !.filled   = @ + fill,
                  !.position = @ + Side(order) * fill,
                  !.pnl      = @ - Side(order) * fill * booked,
                  !.tracker  = AddTrade(@, Side(order) * fill, booked),
                  !.fills    = Append(@, [source |-> "book", ref |-> price,
                                          quantity |-> Side(order) * fill,
                                          price |-> booked])]

\* the body of one book fill: legacy tracking, tracker, level update
BookFill(m, order, price, fill) ==
    LET booked == FillPrice(order, price)
        left   == m.levels[price] - fill
    IN  [m EXCEPT !.filled   = @ + fill,
                  !.position = @ + Side(order) * fill,
                  !.pnl      = @ - Side(order) * fill * booked,
                  !.tracker  = AddTrade(@, Side(order) * fill, booked),
                  !.levels   = IF left = 0 THEN Del(@, price) ELSE Put(@, price, left),
                  !.fills    = Append(@, [source |-> "book", ref |-> price,
                                          quantity |-> Side(order) * fill,
                                          price |-> booked])]

\* a book loop that skips a level only when the fill is negative (`if fill < 0`)
RECURSIVE BookLoopZeroFills(_, _, _, _)
BookLoopZeroFills(m, order, crossed, qty_to_fill) ==
    IF crossed = <<>> THEN m
    ELSE LET avail == m.levels[crossed[1]]
             fill  == Min(qty_to_fill - m.filled, avail)
         IN  IF fill < 0
             THEN BookLoopZeroFills(m, order, Tail(crossed), qty_to_fill)
             ELSE LET m1 == BookFill(m, order, crossed[1], fill)
                  IN  IF m1.filled = qty_to_fill
                      THEN m1
                      ELSE BookLoopZeroFills(m1, order, Tail(crossed), qty_to_fill)

\* `for sp in sell_prices` / `for bp in buy_prices`
RECURSIVE BookLoop(_, _, _, _)
BookLoop(m, order, crossed, qty_to_fill) ==
    IF crossed = <<>> THEN m
    ELSE LET avail == m.levels[crossed[1]]
             fill  == Min(qty_to_fill - m.filled, avail)
         IN  IF fill <= 0
             THEN BookLoop(m, order, Tail(crossed), qty_to_fill)
             ELSE LET m1 == BookFill(m, order, crossed[1], fill)
                  IN  IF m1.filled = qty_to_fill
                      THEN m1
                      ELSE BookLoop(m1, order, Tail(crossed), qty_to_fill)

\* Trade.__eq__ of the dataclass: timestamp, price and quantity (one timestamp per list)
TradeEq(a, b) == a.price = b.price /\ a.quantity = b.quantity

\* list.remove(trade): the first element equal to trade goes
RECURSIVE RemoveFirstEqual(_, _)
RemoveFirstEqual(list, trade) ==
    IF list = <<>> THEN <<>>
    ELSE IF TradeEq(list[1], trade) THEN Tail(list)
         ELSE <<list[1]>> \o RemoveFirstEqual(Tail(list), trade)

\* the index in the live list of the trade object id, 0 when it has been removed
IndexOfId(list, id) ==
    IF \E i \in 1..Len(list) : list[i].id = id
    THEN CHOOSE i \in 1..Len(list) : list[i].id = id
    ELSE 0

\* a trade fill that leaves the trade's quantity as it was
TradeFillNoDecrement(m, order, i, fill) ==
    LET trade  == m.trades[i]
        booked == FillPrice(order, trade.price)
    IN  [m EXCEPT !.filled   = @ + fill,
                  !.position = @ + Side(order) * fill,
                  !.pnl      = @ - Side(order) * fill * booked,
                  !.tracker  = AddTrade(@, Side(order) * fill, booked),
                  !.fills    = Append(@, [source |-> "trade", ref |-> trade.id,
                                          quantity |-> Side(order) * fill,
                                          price |-> booked])]

\* a trade fill that books the legacy cash of a sell as that of a buy
TradeFillLegacyUnsigned(m, order, i, fill) ==
    LET trade  == m.trades[i]
        booked == FillPrice(order, trade.price)
        after  == [trade EXCEPT !.quantity = @ - fill]
        live   == [m.trades EXCEPT ![i] = after]
    IN  [m EXCEPT !.filled   = @ + fill,
                  !.position = @ + Side(order) * fill,
                  !.pnl      = @ - fill * booked,
                  !.tracker  = AddTrade(@, Side(order) * fill, booked),
                  !.trades   = IF after.quantity = 0
                               THEN RemoveFirstEqual(live, after)
                               ELSE live,
                  !.fills    = Append(@, [source |-> "trade", ref |-> trade.id,
                                          quantity |-> Side(order) * fill,
                                          price |-> booked])]

\* the body of one trade fill: legacy tracking, tracker, trade.quantity -= fill, removal
TradeFill(m, order, i, fill) ==
    LET trade  == m.trades[i]
        booked == FillPrice(order, trade.price)
        after  == [trade EXCEPT !.quantity = @ - fill]
        live   == [m.trades EXCEPT ![i] = after]
    IN  [m EXCEPT !.filled   = @ + fill,
                  !.position = @ + Side(order) * fill,
                  !.pnl      = @ - Side(order) * fill * booked,
                  !.tracker  = AddTrade(@, Side(order) * fill, booked),
                  !.trades   = IF after.quantity = 0
                               THEN RemoveFirstEqual(live, after)
                               ELSE live,
                  !.fills    = Append(@, [source |-> "trade", ref |-> trade.id,
                                          quantity |-> Side(order) * fill,
                                          price |-> booked])]

\* trade.price <= order.price for a buy, >= for a sell
TradeCrosses(order, trade) ==
    IF order.quantity > 0 THEN trade.price <= order.price ELSE trade.price >= order.price

\* `for trade in market_trades[:]`: ids is the copy, the objects are shared
RECURSIVE TradeLoop(_, _, _, _)
TradeLoop(m, order, ids, qty_to_fill) ==
    IF ids = <<>> THEN m
    ELSE LET i == IndexOfId(m.trades, ids[1])
         IN  IF i # 0 /\ TradeCrosses(order, m.trades[i]) /\ m.filled < qty_to_fill
             THEN LET fill == Min(qty_to_fill - m.filled, m.trades[i].quantity)
                      m1   == TradeFill(m, order, i, fill)
                  IN  IF m1.filled = qty_to_fill
                      THEN m1
                      ELSE TradeLoop(m1, order, Tail(ids), qty_to_fill)
             ELSE TradeLoop(m, order, Tail(ids), qty_to_fill)

\* a matching that crosses the historical trades before the book
MatchTradesThenBook(m, order, crossed, qty_to_fill) ==
    LET m1 == TradeLoop(m, order, [i \in 1..Len(m.trades) |-> m.trades[i].id], qty_to_fill)
    IN  IF m1.filled = qty_to_fill /\ m1.fills # <<>>
        THEN m1
        ELSE BookLoop(m1, order, crossed, qty_to_fill)

\* lines 268-350: the book loop, then the trade loop over a copy of the live list
MatchBookThenTrades(m, order, crossed, qty_to_fill) ==
    LET m1 == BookLoop(m, order, crossed, qty_to_fill)
    IN  TradeLoop(m1, order, [i \in 1..Len(m1.trades) |-> m1.trades[i].id], qty_to_fill)

\* The body of `for order in orders` for one order of a product whose limit lookup
\* does not raise.  e is [book, trades, position, pnl, tracker]; the result has the
\* same fields and the order's fills.
MatchOneOrder(e, order, override, product) ==
    LET max_allowed == MaxAllowed(order, e.position, LimitInForce(product, override))
        qty_to_fill == QtyToFill(order, max_allowed)
        buy         == order.quantity > 0
        m0 == [levels   |-> IF buy THEN e.book.sell_orders ELSE e.book.buy_orders,
               trades   |-> e.trades,
               position |-> e.position,
               pnl      |-> e.pnl,
               tracker  |-> e.tracker,
               filled   |-> 0,
               fills    |-> <<>>]
        m  == MatchBookThenTrades(m0, order, CrossedPrices(order, e.book), qty_to_fill)
    IN  IF max_allowed <= 0
        THEN [book     |-> e.book,
              trades   |-> e.trades,
              position |-> e.position,
              pnl      |-> e.pnl,
              tracker  |-> e.tracker,
              fills    |-> <<>>]
        ELSE [book     |-> IF buy THEN [e.book EXCEPT !.sell_orders = m.levels]
                                  ELSE [e.book EXCEPT !.buy_orders = m.levels],
              trades   |-> m.trades,
              position |-> m.position,
              pnl      |-> m.pnl,
              tracker  |-> m.tracker,
              fills    |-> m.fills]

\* ------------------------------------------------------------------ the tracker on its own

\* signed fill quantities handed to add_trade
FillQuantities == {-12, -5, 0, 5, 10}

\* fill prices handed to add_trade
FillPrices == {Px(100), Px(105), Px(110)}

TrackerInit ==
    /\ tracker = NewTracker
    /\ prev_tracker = NewTracker
    /\ last_call = <<>>
    /\ calls = 0

\* ------------------------------------------------------------------ the run's inputs

\* replayed timestamps
MaxTicks == 2

\* the product universes of a run: a multi-product run, and the single product
\* "PRODUCT" of the backward-compatible Backtester
Universes == {<<"ABRA", "ASH">>, <<"PRODUCT">>}

\* values of Trader.MAX_LIMIT: no override (None), the class default 0, an override
MaxLimits == {<<>>, <<0>>, <<25>>}

Level(price, volume) == << <<price>>, <<volume>> >>

NoLevel == << <<>>, <<>> >>

\* market-data rows: a thin two-sided book, a deep one, and a one-sided row whose
\* levels have an empty volume field and a volume field of 0
RowThin == [bid |-> <<Level(101, 4), Level(100, 6), NoLevel>>,
            ask |-> <<Level(104, 3), Level(105, 2), Level(106, 5)>>]

RowDeep == [bid |-> <<Level(103, 30), Level(102, 30), NoLevel>>,
            ask |-> <<Level(104, 20), Level(105, 30), NoLevel>>]

RowGap == [bid |-> << << <<100>>, <<>> >>, Level(99, 0), NoLevel>>,
           ask |-> <<NoLevel, NoLevel, NoLevel>>]

Trade(id, price, quantity) == [id |-> id, price |-> price, quantity |-> quantity]

Range(s) == {s[i] : i \in 1..Len(s)}

\* the two non-empty lists of historical trades at one timestamp; the second holds
\* two equal trades
TradesMixed == <<Trade(1, 104, 30), Trade(2, 106, 4)>>

TradesTwin == <<Trade(1, 105, 3), Trade(2, 105, 3)>>

\* What the loaded data holds at one timestamp: per product a row (<<row>>) or none
\* (<<>>), and the product's trades.  first_row and first_trades go to the first
\* product of the universe, other_row to every other product.
DataAt(universe, first_row, first_trades, other_row) ==
    [prices |-> [p \in Range(universe) |-> IF p = universe[1] THEN first_row ELSE other_row],
     trades |-> [p \in Range(universe) |-> IF p = universe[1] THEN first_trades ELSE <<>>]]

\* The contents a replayed timestamp is drawn from; a replayed timestamp has a row
\* for at least one product.
TickData(universe) ==
    {d \in {DataAt(universe, <<RowThin>>, <<>>, <<RowThin>>),
            DataAt(universe, <<RowThin>>, TradesMixed, <<>>),
            DataAt(universe, <<RowDeep>>, TradesTwin, <<>>),
            DataAt(universe, <<RowDeep>>, <<>>, <<RowThin>>),
            DataAt(universe, <<RowGap>>, <<>>, <<RowThin>>),
            DataAt(universe, <<>>, TradesMixed, <<RowThin>>)} :
        \E p \in Range(universe) : d.prices[p] # <<>>}

Order(symbol, price, quantity) == [symbol |-> symbol, price |-> price, quantity |-> quantity]

\* What trader.run may return, flattened: the all_orders of the tick.
OrderBatches(universe) ==
    LET a == universe[1]
        b == universe[Len(universe)]
    IN  {<<>>,
         <<Order(a, 105, 50)>>,
         <<Order(a, 104, 20), Order(a, 105, 50)>>,
         <<Order(a, 100, -50)>>,
         <<Order(a, 102, -12), Order(a, 105, 50)>>,
         <<Order(a, 100, 0)>>,
         <<Order(b, 105, 5), Order("PIKACHU", 105, 5), Order(a, 100, -50)>>}

\* ------------------------------------------------------------------ the run

RECURSIVE SumOver(_, _)
SumOver(f, seq) == IF seq = <<>> THEN 0 ELSE f[seq[1]] + SumOver(f, Tail(seq))

\* orders_by_product flattened again: the groups in order of first appearance, each
\* group's orders in the order given
RECURSIVE GroupByProduct(_)
GroupByProduct(orders) ==
    IF orders = <<>> THEN <<>>
    ELSE LET Same(o)  == o.symbol = orders[1].symbol
             Other(o) == o.symbol # orders[1].symbol
         IN  SelectSeq(orders, Same) \o GroupByProduct(SelectSeq(orders, Other))

\* MultiProductBacktester.__init__ for the products of universe and a trader whose
\* MAX_LIMIT is limit
Constructed(universe, limit) ==
    LET P == Range(universe)
    IN  /\ pc = "loading"
        /\ products = universe
        /\ MAX_LIMIT = limit
        /\ timestamps = <<>>
        /\ k = 0
        /\ prices = [p \in P |-> <<>>]
        /\ trades = [p \in P |-> <<>>]
        /\ orderbooks = [p \in P |-> NewOrderBook]
        /\ positions = [p \in P |-> 0]
        /\ pnls = [p \in P |-> 0]
        /\ position_trackers = [p \in P |-> NewTracker]
        /\ pending = <<>>
        /\ max_pos = <<>>
        /\ position_histories = [p \in P |-> <<>>]
        /\ pnl_histories = [p \in P |-> <<>>]
        /\ realized_pnl_histories = [p \in P |-> <<>>]
        /\ unrealized_pnl_histories = [p \in P |-> <<>>]
        /\ total_pnl_histories = [p \in P |-> <<>>]
        /\ mid_price_histories = [p \in P |-> <<>>]
        /\ overall_pnl_history = <<>>
        /\ overall_realized_pnl_history = <<>>
        /\ overall_unrealized_pnl_history = <<>>
        /\ tick_start = <<>>
        /\ tick_fills = <<>>
        /\ last_match = <<>>
        /\ liquidation = <<>>
        /\ loaded = [p \in P |-> [prices |-> "none", trades |-> "none"]]
        /\ invocations = <<>>
        /\ stray_trades = [p \in P |-> <<>>]

Init ==
    /\ TrackerInit
    /\ \E universe \in Universes, limit \in MaxLimits : Constructed(universe, limit)

\* timestamps that only a trades file holds
TradeOnlyTimestamps == {50}

\* the keys of self.prices over all products when n timestamps carry a price row
PriceTimestamps(n) == {(i - 1) * 100 : i \in 1..n}

\* what the trades files hold at the timestamps of TradeOnlyTimestamps: nothing, or
\* two trades of the first product
StrayTrades(universe) ==
    {[p \in Range(universe) |-> <<>>],
     [p \in Range(universe) |-> IF p = universe[1] THEN TradesTwin ELSE <<>>]}

\* a clock made of the timestamps of the price files and of the trades files
LoadDataClockOfAllFiles ==
    /\ pc = "loading"
    /\ \E n \in 0..MaxTicks, stray \in StrayTrades(products) :
          /\ stray_trades' = stray
          /\ timestamps' = Sorted(PriceTimestamps(n)
                                    \cup (IF \E p \in Range(products) : stray[p] # <<>>
                                          THEN TradeOnlyTimestamps ELSE {}))
    /\ pc' = IF timestamps' = <<>> THEN "liquidating" ELSE "replaying"
    /\ UNCHANGED <<products, MAX_LIMIT, k, prices, pending, max_pos, bookVars, histVars,
                   tick_start, tick_fills, last_match, liquidation>>
    /\ loaded' = [p \in Range(products) |-> [prices |-> "all", trades |-> "all"]]
    /\ UNCHANGED <<trackerVars, invocations>>

\* load_data and the timestamps of run(): n distinct timestamps carry a price row,
\* and the clock is the sorted union of the keys of self.prices.  What each of them
\* holds is drawn when the timestamp is replayed.
LoadData ==
    /\ pc = "loading"
    /\ \E n \in 0..MaxTicks, stray \in StrayTrades(products) :
          /\ stray_trades' = stray
          /\ timestamps' = Sorted(PriceTimestamps(n))
    /\ pc' = IF timestamps' = <<>> THEN "liquidating" ELSE "replaying"
    /\ UNCHANGED <<products, MAX_LIMIT, k, prices, pending, max_pos, bookVars, histVars,
                   tick_start, tick_fills, last_match, liquidation>>
    /\ loaded' = [p \in Range(products) |-> [prices |-> "all", trades |-> "all"]]
    /\ UNCHANGED <<trackerVars, invocations>>

\* self.prices[product].get(ts) and self.trades[product].get(ts, []) for every
\* product at the timestamp ts of the clock
DataOf(ts) ==
    IF ts \in TradeOnlyTimestamps
    THEN {[prices |-> [p \in Range(products) |-> <<>>], trades |-> stray_trades]}
    ELSE TickData(products)

\* load_data raises while reading a file of the i-th product: the file is missing
\* or its first row is malformed (none of its rows is read), or a later row is
\* malformed (the rows before it are read).  The products before the i-th are
\* loaded, the price rows of the i-th are loaded when its trades file fails, and the
\* error leaves run().
LoadFails ==
    /\ pc = "loading"
    /\ \E i \in 1..Len(products), file \in {"price_csv", "trades_csv"},
          read \in {"none", "part"} :
          loaded' = [p \in Range(products) |->
                        IF \E j \in 1..(i - 1) : products[j] = p
                        THEN [prices |-> "all", trades |-> "all"]
                        ELSE IF p = products[i]
                             THEN IF file = "price_csv"
                                  THEN [prices |-> read, trades |-> "none"]
                                  ELSE [prices |-> "all", trades |-> read]
                             ELSE [prices |-> "none", trades |-> "none"]]
    /\ pc' = "load_failed"
    /\ UNCHANGED <<products, MAX_LIMIT, timestamps, k, prices, pending, max_pos, bookVars,
                   histVars, tick_start, tick_fills, last_match, liquidation, invocations,
                   stray_trades>>
    /\ UNCHANGED trackerVars

Books ==
    [orderbooks |-> orderbooks, trades |-> trades, positions |-> positions,
     pnls |-> pnls, position_trackers |-> position_trackers]

\* a tick head that empties the book of a product without a row at the tick
BeginTickClearingGaps ==
    /\ pc = "replaying"
    /\ \E data \in DataOf(timestamps[k + 1]), all_orders \in OrderBatches(products) :
          /\ prices' = data.prices
          /\ trades' = data.trades
          /\ orderbooks' = [p \in Range(products) |->
                               IF data.prices[p] # <<>>
                               THEN UpdateFromPriceRow(orderbooks[p], data.prices[p][1])
                               ELSE NewOrderBook]
          /\ pending' = GroupByProduct(all_orders)
          /\ tick_start' = [orderbooks |-> orderbooks', trades |-> trades',
                            positions |-> positions, pnls |-> pnls,
                            position_trackers |-> position_trackers,
                            rebuilt_from |-> orderbooks, all_orders |-> all_orders,
                            data |-> data]
    /\ max_pos' = MAX_LIMIT
    /\ tick_fills' = <<>>
    /\ last_match' = <<>>
    /\ pc' = "matching"
    /\ UNCHANGED <<products, MAX_LIMIT, timestamps, k, positions, pnls, position_trackers,
                   histVars, liquidation>>
    /\ invocations' = Append(invocations, timestamps[k + 1])
    /\ UNCHANGED <<trackerVars, loaded, stray_trades>>

\* The head of a tick of the replay loop: the books of the products with a row are
\* rebuilt, the strategy is called and its orders flattened and grouped.
BeginTick ==
    /\ pc = "replaying"
    /\ \E data \in DataOf(timestamps[k + 1]), all_orders \in OrderBatches(products) :
          /\ prices' = data.prices
          /\ trades' = data.trades
          /\ orderbooks' = [p \in Range(products) |->
                               IF data.prices[p] # <<>>
                               THEN UpdateFromPriceRow(orderbooks[p], data.prices[p][1])
                               ELSE orderbooks[p]]
          /\ pending' = GroupByProduct(all_orders)
          /\ tick_start' = [orderbooks |-> orderbooks', trades |-> trades',
                            positions |-> positions, pnls |-> pnls,
                            position_trackers |-> position_trackers,
                            rebuilt_from |-> orderbooks, all_orders |-> all_orders,
                            data |-> data]
    /\ max_pos' = MAX_LIMIT
    /\ tick_fills' = <<>>
    /\ last_match' = <<>>
    /\ pc' = "matching"
    /\ UNCHANGED <<products, MAX_LIMIT, timestamps, k, positions, pnls, position_trackers,
                   histVars, liquidation>>
    /\ invocations' = Append(invocations, timestamps[k + 1])
    /\ UNCHANGED <<trackerVars, loaded, stray_trades>>

\* The State object handed to trader.run at the tick being replayed.  order_depth is
\* a new dict of the engine's own OrderBook objects and positions is the engine's
\* own dict (`state.positions = self.positions`), so what the object exposes at any
\* moment is what the engine holds at that moment.
StateObject ==
    [timestamp |-> invocations[Len(invocations)], order_depth |-> orderbooks, positions |-> positions]

\* an error of the strategy that the engine answers by restoring the state of the
\* start of the run
StrategyRaisesRollingBack ==
    /\ pc = "replaying"
    /\ \E data \in DataOf(timestamps[k + 1]) :
          /\ prices' = data.prices
          /\ trades' = data.trades
          /\ orderbooks' = [p \in Range(products) |->
                               IF data.prices[p] # <<>>
                               THEN UpdateFromPriceRow(orderbooks[p], data.prices[p][1])
                               ELSE orderbooks[p]]
    /\ positions' = [p \in Range(products) |-> 0]
    /\ pnls' = [p \in Range(products) |-> 0]
    /\ position_trackers' = [p \in Range(products) |-> NewTracker]
    /\ pc' = "aborted"
    /\ UNCHANGED <<products, MAX_LIMIT, timestamps, k, pending, max_pos, histVars,
                   tick_start, tick_fills, last_match, liquidation>>
    /\ invocations' = Append(invocations, timestamps[k + 1])
    /\ UNCHANGED <<trackerVars, loaded, stray_trades>>

\* The head of a tick whose call trader.run(state) raises: the books of the
\* products with a row have been rebuilt, and the error leaves run().
StrategyRaises ==
    /\ pc = "replaying"
    /\ \E data \in DataOf(timestamps[k + 1]) :
          /\ prices' = data.prices
          /\ trades' = data.trades
          /\ orderbooks' = [p \in Range(products) |->
                               IF data.prices[p] # <<>>
                               THEN UpdateFromPriceRow(orderbooks[p], data.prices[p][1])
                               ELSE orderbooks[p]]
    /\ pc' = "aborted"
    /\ UNCHANGED <<products, MAX_LIMIT, timestamps, k, positions, pnls, position_trackers,
                   pending, max_pos, histVars, tick_start, tick_fills, last_match,
                   liquidation>>
    /\ invocations' = Append(invocations, timestamps[k + 1])
    /\ UNCHANGED <<trackerVars, loaded, stray_trades>>

\* a group of an unknown product that ends the matching of the batch (`break`)
DropOrderAndRest ==
    /\ pc = "matching"
    /\ pending # <<>>
    /\ pending[1].symbol \notin Range(products)
    /\ pending' = <<>>
    /\ last_match' = [order |-> pending[1], dropped |-> TRUE, before |-> Books,
                      fills |-> <<>>]
    /\ UNCHANGED <<pc, products, MAX_LIMIT, timestamps, k, prices, max_pos, bookVars,
                   histVars, tick_start, tick_fills, liquidation>>
    /\ UNCHANGED <<trackerVars, loaded, invocations, stray_trades>>

\* match_orders: a group whose product is not one of self.products is skipped
DropOrder ==
    /\ pc = "matching"
    /\ pending # <<>>
    /\ pending[1].symbol \notin Range(products)
    /\ pending' = Tail(pending)
    /\ last_match' = [order |-> pending[1], dropped |-> TRUE, before |-> Books,
                      fills |-> <<>>]
    /\ UNCHANGED <<pc, products, MAX_LIMIT, timestamps, k, prices, max_pos, bookVars,
                   histVars, tick_start, tick_fills, liquidation>>
    /\ UNCHANGED <<trackerVars, loaded, invocations, stray_trades>>

\* _match_product_orders: POSITION_LIMIT[product] raises KeyError, which leaves run()
LimitLookupFails ==
    /\ pc = "matching"
    /\ pending # <<>>
    /\ pending[1].symbol \in Range(products)
    /\ LimitLookupRaises(pending[1].symbol, max_pos)
    /\ pc' = "failed"
    /\ UNCHANGED <<products, MAX_LIMIT, timestamps, k, prices, pending, max_pos, bookVars,
                   histVars, tick_start, tick_fills, last_match, liquidation>>
    /\ UNCHANGED <<trackerVars, loaded, invocations, stray_trades>>

\* a matching that books every fill's cash in the legacy pnl of the first product
MatchOrderSharedPnl ==
    /\ pc = "matching"
    /\ pending # <<>>
    /\ pending[1].symbol \in Range(products)
    /\ ~LimitLookupRaises(pending[1].symbol, max_pos)
    /\ LET order   == pending[1]
           product == order.symbol
           r == MatchOneOrder([book     |-> orderbooks[product],
                               trades   |-> trades[product],
                               position |-> positions[product],
                               pnl      |-> pnls[product],
                               tracker  |-> position_trackers[product]],
                              order, max_pos, product)
       IN  /\ orderbooks' = [orderbooks EXCEPT ![product] = r.book]
           /\ trades' = [trades EXCEPT ![product] = r.trades]
           /\ positions' = [positions EXCEPT ![product] = r.position]
           /\ pnls' = [pnls EXCEPT ![products[1]] = @ + (r.pnl - pnls[product])]
           /\ position_trackers' = [position_trackers EXCEPT ![product] = r.tracker]
           /\ last_match' = [order |-> order, dropped |-> FALSE, before |-> Books,
                             fills |-> r.fills]
           /\ tick_fills' = tick_fills \o [i \in 1..Len(r.fills) |->
                                              [product |-> product, fill |-> r.fills[i]]]
    /\ pending' = Tail(pending)
    /\ UNCHANGED <<pc, products, MAX_LIMIT, timestamps, k, prices, max_pos, histVars,
                   tick_start, liquidation>>
    /\ UNCHANGED <<trackerVars, loaded, invocations, stray_trades>>

\* a matching in which every order meets the book and the trades of the tick's start
MatchOrderFromSnapshot ==
    /\ pc = "matching"
    /\ pending # <<>>
    /\ pending[1].symbol \in Range(products)
    /\ ~LimitLookupRaises(pending[1].symbol, max_pos)
    /\ LET order   == pending[1]
           product == order.symbol
           r == MatchOneOrder([book     |-> tick_start.orderbooks[product],
                               trades   |-> tick_start.trades[product],
                               position |-> positions[product],
                               pnl      |-> pnls[product],
                               tracker  |-> position_trackers[product]],
                              order, max_pos, product)
       IN  /\ orderbooks' = [orderbooks EXCEPT ![product] = r.book]
           /\ trades' = [trades EXCEPT ![product] = r.trades]
           /\ positions' = [positions EXCEPT ![product] = r.position]
           /\ pnls' = [pnls EXCEPT ![product] = r.pnl]
           /\ position_trackers' = [position_trackers EXCEPT ![product] = r.tracker]
           /\ last_match' = [order |-> order, dropped |-> FALSE, before |-> Books,
                             fills |-> r.fills]
           /\ tick_fills' = tick_fills \o [i \in 1..Len(r.fills) |->
                                              [product |-> product, fill |-> r.fills[i]]]
    /\ pending' = Tail(pending)
    /\ UNCHANGED <<pc, products, MAX_LIMIT, timestamps, k, prices, max_pos, histVars,
                   tick_start, liquidation>>
    /\ UNCHANGED <<trackerVars, loaded, invocations, stray_trades>>

\* _match_product_orders: the body of `for order in orders` for the next order
MatchOrder ==
    /\ pc = "matching"
    /\ pending # <<>>
    /\ pending[1].symbol \in Range(products)
    /\ ~LimitLookupRaises(pending[1].symbol, max_pos)
    /\ LET order   == pending[1]
           product == order.symbol
           r == MatchOneOrder([book     |-> orderbooks[product],
                               trades   |-> trades[product],
                               position |-> positions[product],
                               pnl      |-> pnls[product],
                               tracker  |-> position_trackers[product]],
                              order, max_pos, product)
       IN  /\ orderbooks' = [orderbooks EXCEPT ![product] = r.book]
           /\ trades' = [trades EXCEPT ![product] = r.trades]
           /\ positions' = [positions EXCEPT ![product] = r.position]
           /\ pnls' = [pnls EXCEPT ![product] = r.pnl]
           /\ position_trackers' = [position_trackers EXCEPT ![product] = r.tracker]
           /\ last_match' = [order |-> order, dropped |-> FALSE, before |-> Books,
                             fills |-> r.fills]
           /\ tick_fills' = tick_fills \o [i \in 1..Len(r.fills) |->
                                              [product |-> product, fill |-> r.fills[i]]]
    /\ pending' = Tail(pending)
    /\ UNCHANGED <<pc, products, MAX_LIMIT, timestamps, k, prices, max_pos, histVars,
                   tick_start, liquidation>>
    /\ UNCHANGED <<trackerVars, loaded, invocations, stray_trades>>

\* a tick's tail that records nothing when the strategy returned no orders
RecordTickUnlessIdle ==
    /\ pc = "matching"
    /\ pending = <<>>
    /\ LET P          == Range(products)
           mid        == [p \in P |-> GetMidPrice(orderbooks[p])]
           realized   == [p \in P |-> position_trackers[p].realized_pnl]
           unrealized == [p \in P |-> GetUnrealizedPnl(position_trackers[p], mid[p])]
           total      == [p \in P |-> realized[p] + unrealized[p]]
       IN  IF tick_start.all_orders = <<>>
           THEN UNCHANGED histVars
           ELSE
                 /\ position_histories' = [p \in P |-> Append(position_histories[p], positions[p])]
                 /\ pnl_histories' = [p \in P |-> Append(pnl_histories[p], pnls[p])]
                 /\ realized_pnl_histories' =
                        [p \in P |-> Append(realized_pnl_histories[p], realized[p])]
                 /\ unrealized_pnl_histories' =
                        [p \in P |-> Append(unrealized_pnl_histories[p], unrealized[p])]
                 /\ total_pnl_histories' = [p \in P |-> Append(total_pnl_histories[p], total[p])]
                 /\ mid_price_histories' = [p \in P |-> Append(mid_price_histories[p], mid[p])]
                 /\ overall_realized_pnl_history' =
                        Append(overall_realized_pnl_history, SumOver(realized, products))
                 /\ overall_unrealized_pnl_history' =
                        Append(overall_unrealized_pnl_history, SumOver(unrealized, products))
                 /\ overall_pnl_history' = Append(overall_pnl_history, SumOver(total, products))
    /\ k' = k + 1
    /\ pc' = IF k' = Len(timestamps) THEN "liquidating" ELSE "replaying"
    /\ prices' = [p \in Range(products) |-> <<>>]
    /\ trades' = [p \in Range(products) |-> <<>>]
    /\ tick_start' = <<>>
    /\ tick_fills' = <<>>
    /\ last_match' = <<>>
    /\ UNCHANGED <<products, MAX_LIMIT, timestamps, pending, max_pos, orderbooks,
                   positions, pnls, position_trackers, liquidation>>
    /\ UNCHANGED <<trackerVars, loaded, invocations, stray_trades>>

\* a tick tail whose run-wide total is the first product's total
RecordTickFirstTotal ==
    /\ pc = "matching"
    /\ pending = <<>>
    /\ LET P          == Range(products)
           mid        == [p \in P |-> GetMidPrice(orderbooks[p])]
           realized   == [p \in P |-> position_trackers[p].realized_pnl]
           unrealized == [p \in P |-> GetUnrealizedPnl(position_trackers[p], mid[p])]
           total      == [p \in P |-> realized[p] + unrealized[p]]
       IN  /\ position_histories' = [p \in P |-> Append(position_histories[p], positions[p])]
           /\ pnl_histories' = [p \in P |-> Append(pnl_histories[p], pnls[p])]
           /\ realized_pnl_histories' =
                  [p \in P |-> Append(realized_pnl_histories[p], realized[p])]
           /\ unrealized_pnl_histories' =
                  [p \in P |-> Append(unrealized_pnl_histories[p], unrealized[p])]
           /\ total_pnl_histories' = [p \in P |-> Append(total_pnl_histories[p], total[p])]
           /\ mid_price_histories' = [p \in P |-> Append(mid_price_histories[p], mid[p])]
           /\ overall_realized_pnl_history' =
                  Append(overall_realized_pnl_history, SumOver(realized, products))
           /\ overall_unrealized_pnl_history' =
                  Append(overall_unrealized_pnl_history, SumOver(unrealized, products))
           /\ overall_pnl_history' = Append(overall_pnl_history, total[products[1]])
    /\ k' = k + 1
    /\ pc' = IF k' = Len(timestamps) THEN "liquidating" ELSE "replaying"
    /\ prices' = [p \in Range(products) |-> <<>>]
    /\ trades' = [p \in Range(products) |-> <<>>]
    /\ tick_start' = <<>>
    /\ tick_fills' = <<>>
    /\ last_match' = <<>>
    /\ UNCHANGED <<products, MAX_LIMIT, timestamps, pending, max_pos, orderbooks,
                   positions, pnls, position_trackers, liquidation>>
    /\ UNCHANGED <<trackerVars, loaded, invocations, stray_trades>>

\* a tick tail that reads the mid price from the book as the tick's row rebuilt it
RecordTickRowMid ==
    /\ pc = "matching"
    /\ pending = <<>>
    /\ LET P          == Range(products)
           mid        == [p \in P |-> GetMidPrice(tick_start.orderbooks[p])]
           realized   == [p \in P |-> position_trackers[p].realized_pnl]
           unrealized == [p \in P |-> GetUnrealizedPnl(position_trackers[p], mid[p])]
           total      == [p \in P |-> realized[p] + unrealized[p]]
       IN  /\ position_histories' = [p \in P |-> Append(position_histories[p], positions[p])]
           /\ pnl_histories' = [p \in P |-> Append(pnl_histories[p], pnls[p])]
           /\ realized_pnl_histories' =
                  [p \in P |-> Append(realized_pnl_histories[p], realized[p])]
           /\ unrealized_pnl_histories' =
                  [p \in P |-> Append(unrealized_pnl_histories[p], unrealized[p])]
           /\ total_pnl_histories' = [p \in P |-> Append(total_pnl_histories[p], total[p])]
           /\ mid_price_histories' = [p \in P |-> Append(mid_price_histories[p], mid[p])]
           /\ overall_realized_pnl_history' =
                  Append(overall_realized_pnl_history, SumOver(realized, products))
           /\ overall_unrealized_pnl_history' =
                  Append(overall_unrealized_pnl_history, SumOver(unrealized, products))
           /\ overall_pnl_history' = Append(overall_pnl_history, SumOver(total, products))
    /\ k' = k + 1
    /\ pc' = IF k' = Len(timestamps) THEN "liquidating" ELSE "replaying"
    /\ prices' = [p \in Range(products) |-> <<>>]
    /\ trades' = [p \in Range(products) |-> <<>>]
    /\ tick_start' = <<>>
    /\ tick_fills' = <<>>
    /\ last_match' = <<>>
    /\ UNCHANGED <<products, MAX_LIMIT, timestamps, pending, max_pos, orderbooks,
                   positions, pnls, position_trackers, liquidation>>
    /\ UNCHANGED <<trackerVars, loaded, invocations, stray_trades>>

\* The tail of a tick, once every order is matched: the per-product and overall
\* metrics are appended to the histories.
RecordTick ==
    /\ pc = "matching"
    /\ pending = <<>>
    /\ LET P          == Range(products)
           mid        == [p \in P |-> GetMidPrice(orderbooks[p])]
           realized   == [p \in P |-> position_trackers[p].realized_pnl]
           unrealized == [p \in P |-> GetUnrealizedPnl(position_trackers[p], mid[p])]
           total      == [p \in P |-> realized[p] + unrealized[p]]
       IN  /\ position_histories' = [p \in P |-> Append(position_histories[p], positions[p])]
           /\ pnl_histories' = [p \in P |-> Append(pnl_histories[p], pnls[p])]
           /\ realized_pnl_histories' =
                  [p \in P |-> Append(realized_pnl_histories[p], realized[p])]
           /\ unrealized_pnl_histories' =
                  [p \in P |-> Append(unrealized_pnl_histories[p], unrealized[p])]
           /\ total_pnl_histories' = [p \in P |-> Append(total_pnl_histories[p], total[p])]
           /\ mid_price_histories' = [p \in P |-> Append(mid_price_histories[p], mid[p])]
           /\ overall_realized_pnl_history' =
                  Append(overall_realized_pnl_history, SumOver(realized, products))
           /\ overall_unrealized_pnl_history' =
                  Append(overall_unrealized_pnl_history, SumOver(unrealized, products))
           /\ overall_pnl_history' = Append(overall_pnl_history, SumOver(total, products))
    /\ k' = k + 1
    /\ pc' = IF k' = Len(timestamps) THEN "liquidating" ELSE "replaying"
    /\ prices' = [p \in Range(products) |-> <<>>]
    /\ trades' = [p \in Range(products) |-> <<>>]
    /\ tick_start' = <<>>
    /\ tick_fills' = <<>>
    /\ last_match' = <<>>
    /\ UNCHANGED <<products, MAX_LIMIT, timestamps, pending, max_pos, orderbooks,
                   positions, pnls, position_trackers, liquidation>>
    /\ UNCHANGED <<trackerVars, loaded, invocations, stray_trades>>

\* an auto-clear that buys a long position and sells a short one
ClearPositionSameSign(position, pnl, t, book) ==
    [position |-> 0, pnl |-> pnl, tracker |-> AddTrade(t, position, GetMidPrice(book)),
     calls |-> << <<position, GetMidPrice(book)>> >>]

\* an auto-clear that leaves the legacy position as it was
ClearPositionKeepingLegacy(position, pnl, t, book) ==
    IF position # 0
    THEN LET last_mid_price == GetMidPrice(book)
         IN  [position |-> position,
              pnl      |-> pnl + (IF position < 0
                                  THEN position * last_mid_price
                                  ELSE -position * last_mid_price),
              tracker  |-> AddTrade(t, -position, last_mid_price),
              calls    |-> << <<-position, last_mid_price>> >>]
    ELSE [position |-> position, pnl |-> pnl, tracker |-> t, calls |-> <<>>]

\* The auto-clear of one product: the closing add_trade at the mid price, the
\* legacy pnl, the position reset.  calls lists the add_trade calls made.
ClearPosition(position, pnl, t, book) ==
    IF position # 0
    THEN LET last_mid_price == GetMidPrice(book)
         IN  [position |-> 0,
              pnl      |-> pnl + (IF position < 0
                                  THEN position * last_mid_price
                                  ELSE -position * last_mid_price),
              tracker  |-> AddTrade(t, -position, last_mid_price),
              calls    |-> << <<-position, last_mid_price>> >>]
    ELSE [position |-> position, pnl |-> pnl, tracker |-> t, calls |-> <<>>]

\* an end of run() that appends no final entry
LiquidateNoFinalRecord ==
    /\ pc = "liquidating"
    /\ pc' = "complete"
    /\ liquidation' = IF timestamps # <<>>
                      THEN [before |-> Books,
                            mid |-> [p \in Range(products) |-> GetMidPrice(orderbooks[p])],
                            calls |-> [p \in Range(products) |-> <<>>]]
                      ELSE liquidation
    /\ UNCHANGED <<products, MAX_LIMIT, timestamps, k, prices, pending, max_pos, bookVars,
                   histVars, tick_start, tick_fills, last_match>>
    /\ UNCHANGED <<trackerVars, loaded, invocations, stray_trades>>

\* The end of run(): with at least one timestamp, every open position is cleared
\* and one more entry is appended to every history.
Liquidate ==
    /\ pc = "liquidating"
    /\ pc' = "complete"
    /\ IF timestamps # <<>>
       THEN LET P == Range(products)
                c == [p \in P |-> ClearPosition(positions[p], pnls[p],
                                                position_trackers[p], orderbooks[p])]
                mid        == [p \in P |-> GetMidPrice(orderbooks[p])]
                realized   == [p \in P |-> c[p].tracker.realized_pnl]
                unrealized == [p \in P |-> GetUnrealizedPnl(c[p].tracker, mid[p])]
                total      == [p \in P |-> realized[p] + unrealized[p]]
            IN  /\ positions' = [p \in P |-> c[p].position]
                /\ pnls' = [p \in P |-> c[p].pnl]
                /\ position_trackers' = [p \in P |-> c[p].tracker]
                /\ liquidation' = [before |-> Books, mid |-> mid,
                                   calls |-> [p \in P |-> c[p].calls]]
                /\ timestamps' = Append(timestamps, timestamps[Len(timestamps)] + 1)
                /\ overall_realized_pnl_history' =
                       Append(overall_realized_pnl_history, SumOver(realized, products))
                /\ overall_unrealized_pnl_history' =
                       Append(overall_unrealized_pnl_history, SumOver(unrealized, products))
                /\ overall_pnl_history' =
                       Append(overall_pnl_history,
                              SumOver(realized, products) + SumOver(unrealized, products))
                /\ position_histories' = [p \in P |-> Append(position_histories[p], 0)]
                /\ pnl_histories' = [p \in P |-> Append(pnl_histories[p], c[p].pnl)]
                /\ realized_pnl_histories' =
                       [p \in P |-> Append(realized_pnl_histories[p], realized[p])]
                /\ unrealized_pnl_histories' =
                       [p \in P |-> Append(unrealized_pnl_histories[p], unrealized[p])]
                /\ total_pnl_histories' =
                       [p \in P |-> Append(total_pnl_histories[p], total[p])]
                /\ mid_price_histories' = [p \in P |-> Append(mid_price_histories[p], mid[p])]
       ELSE UNCHANGED <<positions, pnls, position_trackers, liquidation, timestamps,
                        histVars>>
    /\ UNCHANGED <<products, MAX_LIMIT, k, prices, trades, orderbooks, pending, max_pos,
                   tick_start, tick_fills, last_match>>
    /\ UNCHANGED <<trackerVars, loaded, invocations, stray_trades>>

Next ==
    \/ LoadData
    \/ LoadFails
    \/ BeginTick
    \/ StrategyRaises
    \/ DropOrder
    \/ LimitLookupFails
    \/ MatchOrder
    \/ RecordTick
    \/ Liquidate

Spec == Init /\ [][Next]_vars

\* ------------------------------------------------------------------ the tracker's calls

\* one call tracker.add_trade(quantity, price)
AddTradeCall ==
    /\ calls < MaxCalls
    /\ \E quantity \in FillQuantities, price \in FillPrices :
          /\ tracker' = AddTrade(tracker, quantity, price)
          /\ last_call' = <<quantity, price>>
    /\ prev_tracker' = tracker
    /\ calls' = calls + 1

TrackerNext == AddTradeCall /\ UNCHANGED engineVars

\* the tracker alone: the engine stays as constructed
TrackerAlone == TrackerInit /\ Constructed(<<"ABRA">>, <<>>)

SpecTracker == TrackerAlone /\ [][TrackerNext]_vars

\* ------------------------------------------------------------------ claims on the tracker

RECURSIVE SumQty(_)
SumQty(queue) == IF queue = <<>> THEN 0 ELSE queue[1][1] + SumQty(Tail(queue))

\* quantity of the lots before lot i
Before(queue, i) == SumQty(SubSeq(queue, 1, i - 1))

\* what a fill of q units closes of lot i, head first: min(remaining, lotQty)
ClosedOf(queue, q, i) == Min(Max(0, q - Before(queue, i)), queue[i][1])

\* the lots left by a fill of q units: closed quantity taken off, empty lots dropped
RECURSIVE Shrink(_, _, _)
Shrink(queue, q, i) ==
    IF i > Len(queue) THEN <<>>
    ELSE LET left == queue[i][1] - ClosedOf(queue, q, i)
         IN  (IF left > 0 THEN <<(<<left, queue[i][2]>>)>> ELSE <<>>)
             \o Shrink(queue, q, i + 1)

RECURSIVE Gain(_, _, _, _)
Gain(queue, q, price, i) ==
    IF i > Len(queue) THEN 0
    ELSE ClosedOf(queue, q, i) * (price - queue[i][2]) + Gain(queue, q, price, i + 1)

\* C1: after every add_trade call, in any sequence of positive, negative and zero
\* fills from an empty tracker, position = sum of the long lots' quantities minus
\* the sum of the short lots' quantities.
C1_Conservation ==
    tracker.position = SumQty(tracker.long_queue) - SumQty(tracker.short_queue)

\* three calls or more, the last a zero fill, on a tracker holding short lots
C1_Witness ==
    /\ calls >= 3
    /\ last_call[1] = 0
    /\ tracker.position < 0
    /\ Len(tracker.short_queue) = 2

\* C2: after every add_trade call long_queue and short_queue are never both non-empty.
C2_NoStraddle ==
    ~(tracker.long_queue # <<>> /\ tracker.short_queue # <<>>)

\* a buy larger than the open short lots: the shorts are closed and a long lot opened
C2_Witness ==
    /\ last_call # <<>>
    /\ last_call[1] > SumQty(prev_tracker.short_queue)
    /\ prev_tracker.short_queue # <<>>
    /\ tracker.long_queue # <<>>
    /\ tracker.short_queue = <<>>

\* C3: a sell fill (-q, p) closes the long lots head first, min(remaining, lotQty) of
\* each, adds closedQty * (p - entry price) per lot to the realized PnL, removes the
\* lots it closes fully and shrinks a partly closed head lot in place.
C3_SellClosesFifo ==
    (last_call # <<>> /\ last_call[1] <= 0) =>
        LET q == -last_call[1]
            p == last_call[2]
            L == prev_tracker.long_queue
        IN  /\ tracker.long_queue = Shrink(L, q, 1)
            /\ tracker.realized_pnl = prev_tracker.realized_pnl + Gain(L, q, p, 1)

\* the spec's example: lots [(10,100),(5,110)], sell 12 at 105: PnL 40, lot (3,110) left
C3_Witness ==
    /\ prev_tracker.long_queue = << <<10, Px(100)>>, <<5, Px(110)>> >>
    /\ last_call = <<-12, Px(105)>>
    /\ tracker.long_queue = << <<3, Px(110)>> >>
    /\ tracker.realized_pnl = prev_tracker.realized_pnl + Px(40)

\* C4: a buy fill (q, p), q > 0, drains the short lots head first, min(remaining,
\* lotQty) of each, adding closedQty * (entry price - p) to the realized PnL; only the
\* quantity left once the short queue is empty opens a long lot.
C4_BuyClosesFifo ==
    (last_call # <<>> /\ last_call[1] > 0) =>
        LET q == last_call[1]
            p == last_call[2]
            S == prev_tracker.short_queue
        IN  /\ tracker.short_queue = Shrink(S, q, 1)
            /\ tracker.realized_pnl = prev_tracker.realized_pnl - Gain(S, q, p, 1)
            /\ tracker.long_queue =
                   prev_tracker.long_queue
                   \o (IF q > SumQty(S) THEN << <<q - SumQty(S), p>> >> ELSE <<>>)

\* a buy of 10 on shorts [(5,.),(12,.)]: the head lot is closed, the second shrunk to 7
C4_Witness ==
    /\ Len(prev_tracker.short_queue) = 2
    /\ prev_tracker.short_queue[1][1] = 5
    /\ prev_tracker.short_queue[2][1] = 12
    /\ prev_tracker.short_queue[1][2] # prev_tracker.short_queue[2][2]
    /\ last_call[1] = 10
    /\ Len(tracker.short_queue) = 1
    /\ tracker.short_queue[1][1] = 7
    /\ tracker.long_queue = <<>>

\* ------------------------------------------------------------------ claims on the engine

\* The limit a claim speaks of for product p: the run-wide override when a positive
\* one is supplied, the table's value when none is supplied.
HasLimit(p) ==
    \/ MAX_LIMIT # <<>> /\ MAX_LIMIT[1] > 0
    \/ MAX_LIMIT = <<>> /\ p \in DOMAIN POSITION_LIMIT

LimitOf(p) == IF MAX_LIMIT # <<>> THEN MAX_LIMIT[1] ELSE POSITION_LIMIT[p]

\* an order of one of the run's products has just been processed
Matched == last_match # <<>> /\ ~last_match.dropped

RECURSIVE FilledTotal(_)
FilledTotal(fills) ==
    IF fills = <<>> THEN 0 ELSE Abs(fills[1].quantity) + FilledTotal(Tail(fills))

\* the room of the last order, from the position it found
RoomOfLast ==
    LET o == last_match.order
        p == o.symbol
    IN  IF o.quantity > 0
        THEN LimitOf(p) - last_match.before.positions[p]
        ELSE last_match.before.positions[p] + LimitOf(p)

\* C5: with limit L for a product, in every state of a run (between the orders of
\* a tick as well) the product's position satisfies -L <= position <= L.
C5_PositionWithinLimit ==
    \A p \in Range(products) :
        HasLimit(p) =>
            /\ -LimitOf(p) <= positions[p]
            /\ positions[p] <= LimitOf(p)
            /\ -LimitOf(p) <= position_trackers[p].position
            /\ position_trackers[p].position <= LimitOf(p)

\* the second order of a product in one tick is clipped and brings it to its limit
C5_Witness ==
    /\ Matched
    /\ LET p == last_match.order.symbol
       IN  /\ HasLimit(p)
           /\ last_match.before.positions[p] # tick_start.positions[p]
           /\ last_match.fills # <<>>
           /\ FilledTotal(last_match.fills) < Abs(last_match.order.quantity)
           /\ positions[p] = LimitOf(p)

\* C6: an order fills at most min(|quantity|, room) in all, room taken from the
\* position it finds; with room <= 0 it fills nothing and changes no book, trade,
\* position or PnL.
C6_OrderClamped ==
    (Matched /\ HasLimit(last_match.order.symbol)) =>
        LET o == last_match.order
            p == o.symbol
        IN  IF RoomOfLast <= 0
            THEN /\ last_match.fills = <<>>
                 /\ Books = last_match.before
            ELSE /\ FilledTotal(last_match.fills) <= Min(Abs(o.quantity), RoomOfLast)
                 /\ Abs(positions[p] - last_match.before.positions[p])
                        <= Min(Abs(o.quantity), RoomOfLast)

\* the spec's example: limit 25, position 20, a buy of 50 fills 5
C6_Witness ==
    /\ Matched
    /\ MAX_LIMIT = <<25>>
    /\ last_match.order.quantity = 50
    /\ last_match.before.positions[last_match.order.symbol] = 20
    /\ FilledTotal(last_match.fills) = 5
    /\ positions[last_match.order.symbol] = 25

RECURSIVE SumVolumes(_, _)
SumVolumes(levels, S) ==
    IF S = {} THEN 0
    ELSE LET x == CHOOSE y \in S : TRUE
         IN  levels[x] + SumVolumes(levels, S \ {x})

\* the levels of the crossed side within the order's limit
Eligible(o, levels) ==
    {x \in DOMAIN levels : IF o.quantity > 0 THEN x <= o.price ELSE x >= o.price}

\* the eligible levels with a better price than x
Better(o, levels, x) ==
    {y \in Eligible(o, levels) : IF o.quantity > 0 THEN y < x ELSE y > x}

\* what price priority takes of level x for a fillable quantity of qty
Taken(o, levels, qty, x) ==
    IF x \in Eligible(o, levels)
    THEN Min(Max(0, qty - SumVolumes(levels, Better(o, levels, x))), levels[x])
    ELSE 0

\* the side after price priority took qty: a level taken to zero is gone
SideAfter(o, levels, qty) ==
    [x \in {y \in DOMAIN levels :
                Taken(o, levels, qty, y) = 0 \/ Taken(o, levels, qty, y) < levels[y]} |->
        levels[x] - Taken(o, levels, qty, x)]

BookFillsOf(fills) == LET IsBook(f) == f.source = "book" IN SelectSeq(fills, IsBook)

\* C7: a buy order fills only against ask levels with price <= its limit, in
\* ascending price order, min(remaining, level volume) from each, and leaves the
\* levels above its limit alone; a sell order likewise against bid levels with
\* price >= its limit, in descending price order.
C7_PricePriority ==
    (Matched /\ HasLimit(last_match.order.symbol)) =>
        LET o      == last_match.order
            p      == o.symbol
            before == last_match.before.orderbooks[p]
            buy    == o.quantity > 0
            levels == IF buy THEN before.sell_orders ELSE before.buy_orders
            qty    == IF RoomOfLast <= 0 THEN 0 ELSE Min(Abs(o.quantity), RoomOfLast)
            book   == BookFillsOf(last_match.fills)
        IN  /\ (IF buy THEN orderbooks[p].sell_orders ELSE orderbooks[p].buy_orders)
                   = SideAfter(o, levels, qty)
            /\ (IF buy THEN orderbooks[p].buy_orders ELSE orderbooks[p].sell_orders)
                   = (IF buy THEN before.buy_orders ELSE before.sell_orders)
            /\ \A i \in 1..Len(book) :
                   /\ book[i].ref \in Eligible(o, levels)
                   /\ Abs(book[i].quantity) = Taken(o, levels, qty, book[i].ref)
                   /\ i > 1 => book[i - 1].ref \in Better(o, levels, book[i].ref)
            /\ \A x \in Eligible(o, levels) :
                   Taken(o, levels, qty, x) > 0 => \E i \in 1..Len(book) : book[i].ref = x

\* the spec's example: a buy at 105 against asks {104:3, 105:2, 106:5}
C7_Witness ==
    /\ Matched
    /\ last_match.order.quantity > 0
    /\ last_match.order.price = 105
    /\ last_match.before.orderbooks[last_match.order.symbol].sell_orders
           = (104 :> 3 @@ 105 :> 2 @@ 106 :> 5)
    /\ Len(last_match.fills) >= 2
    /\ last_match.fills[1] = [source |-> "book", ref |-> 104, quantity |-> 3, price |-> Px(104)]
    /\ last_match.fills[2] = [source |-> "book", ref |-> 105, quantity |-> 2, price |-> Px(105)]
    /\ orderbooks[last_match.order.symbol].sell_orders = (106 :> 5)

\* the price of the counterparty of a fill: the level's, or the historical trade's
CounterpartyPrice(f, trades_before) ==
    IF f.source = "book" THEN f.ref
    ELSE LET i == CHOOSE j \in 1..Len(trades_before) : trades_before[j].id = f.ref
         IN  trades_before[i].price

RECURSIVE Replay(_, _, _)
Replay(t, fills, trades_before) ==
    IF fills = <<>> THEN t
    ELSE Replay(AddTrade(t, fills[1].quantity, Px(CounterpartyPrice(fills[1], trades_before))),
                Tail(fills), trades_before)

RECURSIVE Cash(_, _)
Cash(fills, trades_before) ==
    IF fills = <<>> THEN 0
    ELSE -fills[1].quantity * Px(CounterpartyPrice(fills[1], trades_before))
         + Cash(Tail(fills), trades_before)

\* C8: every fill is booked, in the tracker and in the legacy pnl, at the price of
\* the book level or of the historical trade it was matched with, never at the
\* order's own limit price.
C8_CounterpartyPrice ==
    Matched =>
        LET o      == last_match.order
            p      == o.symbol
            before == last_match.before
            side   == IF o.quantity > 0 THEN before.orderbooks[p].sell_orders
                                        ELSE before.orderbooks[p].buy_orders
        IN  /\ \A i \in 1..Len(last_match.fills) :
                   LET f == last_match.fills[i]
                   IN  /\ f.source = "book" => f.ref \in DOMAIN side
                       /\ f.source = "trade" =>
                              \E j \in 1..Len(before.trades[p]) : before.trades[p][j].id = f.ref
                       /\ f.price = Px(CounterpartyPrice(f, before.trades[p]))
            /\ position_trackers[p]
                   = Replay(before.position_trackers[p], last_match.fills, before.trades[p])
            /\ pnls[p] = before.pnls[p] + Cash(last_match.fills, before.trades[p])

\* a book fill and a trade fill, each at a price strictly better than the limit
C8_Witness ==
    /\ Matched
    /\ LET o == last_match.order
           b == last_match.before.trades[o.symbol]
       IN  /\ \E i \in 1..Len(last_match.fills) :
                  /\ last_match.fills[i].source = "book"
                  /\ last_match.fills[i].ref < o.price
                  /\ last_match.fills[i].price = Px(last_match.fills[i].ref)
           /\ \E i \in 1..Len(last_match.fills) :
                  /\ last_match.fills[i].source = "trade"
                  /\ CounterpartyPrice(last_match.fills[i], b) < o.price
                  /\ last_match.fills[i].price # Px(o.price)

\* what the tick's orders have filled so far against the trade id of product p
RECURSIVE FilledAgainst(_, _, _)
FilledAgainst(fills, p, id) ==
    IF fills = <<>> THEN 0
    ELSE (IF fills[1].product = p /\ fills[1].fill.source = "trade" /\ fills[1].fill.ref = id
          THEN Abs(fills[1].fill.quantity) ELSE 0)
         + FilledAgainst(Tail(fills), p, id)

\* the number of the tick's fills against the trade id of product p
RECURSIVE FillsAgainst(_, _, _)
FillsAgainst(fills, p, id) ==
    IF fills = <<>> THEN 0
    ELSE (IF fills[1].product = p /\ fills[1].fill.source = "trade" /\ fills[1].fill.ref = id
          THEN 1 ELSE 0)
         + FillsAgainst(Tail(fills), p, id)

\* the trades of a list that still have quantity, each less what was filled
RECURSIVE Remainders(_, _, _)
Remainders(original, fills, p) ==
    IF original = <<>> THEN <<>>
    ELSE LET t    == original[1]
             left == t.quantity - FilledAgainst(fills, p, t.id)
         IN  (IF left = 0 THEN <<>> ELSE <<[t EXCEPT !.quantity = left]>>)
             \o Remainders(Tail(original), fills, p)

\* C9: within a tick, over all the orders of a product, the quantity filled against
\* a historical trade never exceeds the trade's original quantity; the trade's
\* quantity is its original quantity less what was filled, a partly consumed trade
\* stays in the list with its remainder, and a trade brought to 0 has left the list.
C9_TradesNotDoubleCounted ==
    tick_start # <<>> =>
        \A p \in Range(products) :
            /\ \A i \in 1..Len(tick_start.trades[p]) :
                   FilledAgainst(tick_fills, p, tick_start.trades[p][i].id)
                       <= tick_start.trades[p][i].quantity
            /\ trades[p] = Remainders(tick_start.trades[p], tick_fills, p)

\* one trade filled by two orders of the tick and still holding a remainder, another
\* left untouched
C9_Witness ==
    /\ tick_start # <<>>
    /\ \E p \in Range(products) :
          /\ Len(tick_start.trades[p]) = 2
          /\ FillsAgainst(tick_fills, p, 1) = 2
          /\ Len(trades[p]) = 2
          /\ trades[p][1].id = 1
          /\ trades[p][1].quantity
                 = tick_start.trades[p][1].quantity - FilledAgainst(tick_fills, p, 1)
          /\ trades[p][1].quantity > 0

RECURSIVE CostOf(_)
CostOf(queue) == IF queue = <<>> THEN 0 ELSE queue[1][1] * queue[1][2] + CostOf(Tail(queue))

Last(s) == s[Len(s)]

\* C10: after a run of at least one tick, every product that ended the last tick
\* with a position p # 0 has received exactly one closing fill add_trade(-p, mid) at
\* its current mid price: its tracker position is 0, both queues are empty, the last
\* entries of its position and unrealized histories are 0, and its realized PnL has
\* grown by what the FIFO close realizes, p * mid less the cost of the lots for a
\* long position (the mirror image for a short one).
C10_Liquidation ==
    (pc = "complete" /\ liquidation # <<>>) =>
        \A p \in Range(products) :
            LET p0  == liquidation.before.positions[p]
                t0  == liquidation.before.position_trackers[p]
                mid == GetMidPrice(orderbooks[p])
                n   == Len(position_histories[p])
            IN  /\ p0 = position_histories[p][n - 1]
                /\ p0 # 0 =>
                       /\ liquidation.calls[p] = << <<-p0, mid>> >>
                       /\ positions[p] = 0
                       /\ position_trackers[p].position = 0
                       /\ position_trackers[p].long_queue = <<>>
                       /\ position_trackers[p].short_queue = <<>>
                       /\ Last(position_histories[p]) = 0
                       /\ Last(unrealized_pnl_histories[p]) = 0
                       /\ Last(realized_pnl_histories[p]) = position_trackers[p].realized_pnl
                       /\ position_trackers[p].realized_pnl - t0.realized_pnl
                              = (IF p0 > 0
                                 THEN p0 * mid - CostOf(t0.long_queue)
                                 ELSE CostOf(t0.short_queue) - (-p0) * mid)

\* a long position of two lots bought at different prices is closed at a mid price
\* read from a two-sided book
C10_Witness ==
    /\ pc = "complete"
    /\ liquidation # <<>>
    /\ \E p \in Range(products) :
          /\ liquidation.before.positions[p] > 0
          /\ Len(liquidation.before.position_trackers[p].long_queue) >= 2
          /\ liquidation.mid[p] # Px(FALLBACK_PRICE)
          /\ position_trackers[p].position = 0
          /\ position_trackers[p].realized_pnl
                 # liquidation.before.position_trackers[p].realized_pnl


\* ------------------------------------------------------------------ claims on the histories

\* every per-product series and every run-wide series has n entries
SeriesHave(n) ==
    /\ \A p \in Range(products) :
          /\ Len(position_histories[p]) = n
          /\ Len(pnl_histories[p]) = n
          /\ Len(realized_pnl_histories[p]) = n
          /\ Len(unrealized_pnl_histories[p]) = n
          /\ Len(total_pnl_histories[p]) = n
          /\ Len(mid_price_histories[p]) = n
    /\ Len(overall_pnl_history) = n
    /\ Len(overall_realized_pnl_history) = n
    /\ Len(overall_unrealized_pnl_history) = n

\* C11: history is appended once per tick plus one liquidation tick.  While the
\* run is not complete, after the k-th tick every series has exactly k entries and
\* timestamps holds the real timestamps only (strictly increasing); after a
\* completed run over N >= 1 timestamps, timestamps has N + 1 entries, the last
\* one equal to the last real timestamp plus one, and every series has N + 1 entries.
C11_HistoryPerTick ==
    /\ k <= Len(timestamps)
    /\ \A i \in 1..(Len(timestamps) - 1) : timestamps[i] < timestamps[i + 1]
    /\ pc # "complete" => SeriesHave(k)
    /\ (pc = "complete" /\ k >= 1) =>
           /\ Len(timestamps) = k + 1
           /\ timestamps[k + 1] = timestamps[k] + 1
           /\ SeriesHave(k + 1)

\* a completed run over two timestamps
C11_Witness ==
    /\ pc = "complete"
    /\ k = 2
    /\ timestamps = <<0, 100, 101>>
    /\ SeriesHave(3)


\* twice the mid price the claim gives a book: twice the fallback constant when a
\* side has no levels, else best bid plus best ask
TwiceMid(book) ==
    LET bids == DOMAIN book.buy_orders
        asks == DOMAIN book.sell_orders
    IN  IF bids = {} \/ asks = {}
        THEN 2 * 10000
        ELSE (CHOOSE b \in bids : \A x \in bids : x <= b)
             + (CHOOSE a \in asks : \A x \in asks : a <= x)

\* the books are those the last history entry was taken from
Recorded == pc \in {"replaying", "liquidating", "complete"} /\ k >= 1

\* C12: the mid price of a product is the fallback constant 10000 whenever the bid
\* side or the ask side of its book has no levels and (best bid + best ask) / 2
\* otherwise; the entry recorded in the mid-price history of a tick is that value,
\* and the unrealized PnL recorded for the tick is the open lots valued at that
\* same value (amounts in units of 1/PriceScale).
C12_MidFallback ==
    Recorded =>
        \A p \in Range(products) :
            LET t   == position_trackers[p]
                mid == Last(mid_price_histories[p])
            IN  /\ mid * 2 = TwiceMid(orderbooks[p]) * PriceScale
                /\ GetMidPrice(orderbooks[p]) = mid
                /\ Last(unrealized_pnl_histories[p])
                       = (SumQty(t.long_queue) * mid - CostOf(t.long_queue))
                         + (CostOf(t.short_queue) - SumQty(t.short_queue) * mid)
                /\ Last(total_pnl_histories[p])
                       = Last(realized_pnl_histories[p]) + Last(unrealized_pnl_histories[p])

\* a tick ends with an open position in a product whose book has bids but no asks
C12_Witness ==
    /\ Recorded
    /\ \E p \in Range(products) :
          /\ DOMAIN orderbooks[p].buy_orders # {}
          /\ DOMAIN orderbooks[p].sell_orders = {}
          /\ position_trackers[p].position # 0
          /\ Last(mid_price_histories[p]) = Px(FALLBACK_PRICE)
          /\ Last(unrealized_pnl_histories[p]) # 0


\* ------------------------------------------------------------------ claims on the order book

\* every stored level of the book has a volume above zero
LevelsPositive(book) ==
    /\ \A price \in DOMAIN book.buy_orders : book.buy_orders[price] > 0
    /\ \A price \in DOMAIN book.sell_orders : book.sell_orders[price] > 0

\* C13: in every reachable state, after any rebuild from a market-data row and
\* after any matching, every stored bid and ask level of every product has a
\* volume above zero: a price with zero volume is never stored.
C13_LevelsPositive == \A p \in Range(products) : LevelsPositive(orderbooks[p])


\* the prices of the levels of one side of a row whose price field is present
RowPrices(levels) ==
    {levels[i][1][1] : i \in {j \in 1..Len(levels) : levels[j][1] # <<>>}}

\* the volume the row gives a price: that of the last level with the price, an
\* empty volume field counting as 0
RowVolume(levels, price) ==
    LET at == {j \in 1..Len(levels) : levels[j][1] = <<price>>}
        i  == CHOOSE j \in at : \A j2 \in at : j2 <= j
    IN  IF levels[i][2] = <<>> THEN 0 ELSE levels[i][2][1]

\* the levels of the book are exactly the levels present in the row
ExactlyRow(book, row) ==
    /\ DOMAIN book.buy_orders = RowPrices(row.bid)
    /\ \A price \in RowPrices(row.bid) : book.buy_orders[price] = RowVolume(row.bid, price)
    /\ DOMAIN book.sell_orders = RowPrices(row.ask)
    /\ \A price \in RowPrices(row.ask) : book.sell_orders[price] = RowVolume(row.ask, price)

\* C14: the rebuild replaces the book.  When a tick's matching begins, the book of
\* every product with a market-data row at the timestamp holds exactly the levels
\* present in the row (at most 3 per side): no level of the book the rebuild
\* started from survives, and a level whose price field is absent is not inserted.
\* The book of a product without a row is left as it was.
C14_RebuildReplaces ==
    tick_start # <<>> =>
        \A p \in Range(products) :
            IF prices[p] # <<>>
            THEN /\ ExactlyRow(tick_start.orderbooks[p], prices[p][1])
                 /\ Cardinality(DOMAIN tick_start.orderbooks[p].buy_orders) <= 3
                 /\ Cardinality(DOMAIN tick_start.orderbooks[p].sell_orders) <= 3
            ELSE tick_start.orderbooks[p] = tick_start.rebuilt_from[p]

\* a rebuild from a row with an absent level, on a book that held an ask level left
\* by earlier matching at a price the row does not have
C14_Witness ==
    /\ tick_start # <<>>
    /\ \E p \in Range(products) :
          /\ prices[p] # <<>>
          /\ \E i \in 1..3 : prices[p][1].ask[i][1] = <<>>
          /\ \E price \in DOMAIN tick_start.rebuilt_from[p].sell_orders :
                /\ price \notin DOMAIN tick_start.orderbooks[p].sell_orders
                /\ position_histories[p] # <<>>
                /\ Last(position_histories[p]) > 0


\* the market-data rows a rebuild is given
Rows == {RowThin, RowDeep, RowGap}

\* C15: the rebuild is idempotent.  When a tick's matching begins, a second rebuild
\* of a product's book from the row it was just rebuilt from would leave its bid
\* and ask levels as they are; and from every book a run reaches and for every
\* row, two rebuilds from the row give the levels one rebuild gives.
C15_RebuildIdempotent ==
    /\ tick_start # <<>> =>
           \A p \in Range(products) :
               prices[p] # <<>> =>
                   UpdateFromPriceRow(tick_start.orderbooks[p], prices[p][1])
                       = tick_start.orderbooks[p]
    /\ \A p \in Range(products), row \in Rows :
           UpdateFromPriceRow(UpdateFromPriceRow(orderbooks[p], row), row)
               = UpdateFromPriceRow(orderbooks[p], row)

\* a rebuild that changed a book holding levels: the book the rebuild started from
\* shares a price with the row at another volume
C15_Witness ==
    /\ tick_start # <<>>
    /\ \E p \in Range(products) :
          /\ prices[p] # <<>>
          /\ tick_start.rebuilt_from[p] # tick_start.orderbooks[p]
          /\ \E price \in DOMAIN tick_start.rebuilt_from[p].sell_orders :
                /\ price \in DOMAIN tick_start.orderbooks[p].sell_orders
                /\ tick_start.rebuilt_from[p].sell_orders[price]
                       # tick_start.orderbooks[p].sell_orders[price]


\* ------------------------------------------------------------------ claims on the limits

\* C16: position-limit enforcement never raises.  For every product of the run's
\* universe (the single product "PRODUCT" of the backward-compatible Backtester
\* included) and every order, with or without an override from the strategy, the
\* room is computed and the order matched without an error: run() never fails in
\* the limit lookup.
C16_LimitNeverRaises ==
    /\ pc # "failed"
    /\ (pc = "matching" /\ pending # <<>> /\ pending[1].symbol \in Range(products)) =>
           ~LimitLookupRaises(pending[1].symbol, max_pos)


RECURSIVE SumCrossing(_, _)
SumCrossing(o, list) ==
    IF list = <<>> THEN 0
    ELSE (IF (IF o.quantity > 0 THEN list[1].price <= o.price ELSE list[1].price >= o.price)
          THEN list[1].quantity ELSE 0)
         + SumCrossing(o, Tail(list))

\* what the book and the trades of the timestamp offer the order within its limit price
Liquidity(o, before) ==
    LET book   == before.orderbooks[o.symbol]
        levels == IF o.quantity > 0 THEN book.sell_orders ELSE book.buy_orders
    IN  SumVolumes(levels, Eligible(o, levels)) + SumCrossing(o, before.trades[o.symbol])

\* what the last order fills when it is held to the limit: nothing without room,
\* else the least of its size, its room and the liquidity within its price
FillUnder(limit) ==
    LET o    == last_match.order
        pos  == last_match.before.positions[o.symbol]
        room == IF o.quantity > 0 THEN limit - pos ELSE pos + limit
    IN  IF room <= 0 THEN 0
        ELSE Min(Min(Abs(o.quantity), room), Liquidity(o, last_match.before))

\* C17 as stated: whenever the strategy supplies an override, 0 included, the room
\* of every order is computed from the override; the table's limit is used only
\* when no override is supplied.
C17_OverrideWheneverSupplied ==
    Matched =>
        FilledTotal(last_match.fills)
            = FillUnder(IF MAX_LIMIT # <<>>
                        THEN MAX_LIMIT[1]
                        ELSE POSITION_LIMIT[last_match.order.symbol])

\* C17 amended: whenever the strategy supplies an override other than 0, the room
\* of every order is computed from the override and the fixed table is not
\* consulted; when no override is supplied or the override is 0, the room is
\* computed from the product's limit in the fixed table, and only then can the
\* table lookup fail.
C17_LimitSelection ==
    /\ Matched =>
           FilledTotal(last_match.fills)
               = FillUnder(IF MAX_LIMIT # <<>> /\ MAX_LIMIT[1] # 0
                           THEN MAX_LIMIT[1]
                           ELSE POSITION_LIMIT[last_match.order.symbol])
    /\ pc = "failed" => (MAX_LIMIT = <<>> \/ MAX_LIMIT = <<0>>)

\* with the override 0, a buy of 50 fills up to the table's limit of its product
C17_Witness ==
    /\ Matched
    /\ MAX_LIMIT = <<0>>
    /\ last_match.order.quantity = 50
    /\ last_match.before.positions[last_match.order.symbol] = 0
    /\ FilledTotal(last_match.fills) = POSITION_LIMIT[last_match.order.symbol]


\* ------------------------------------------------------------------ claims on the batch

\* the orders of a batch for the run's products, in the order given
KnownOrders(orders) ==
    LET Known(o) == o.symbol \in Range(products)
    IN  SelectSeq(orders, Known)

\* the books, trades, positions, pnls and trackers after the orders are matched one
\* after the other, product group by product group
RECURSIVE MatchAll(_, _)
MatchAll(b, orders) ==
    IF orders = <<>> THEN b
    ELSE LET o == orders[1]
             p == o.symbol
             r == MatchOneOrder([book     |-> b.orderbooks[p],
                                 trades   |-> b.trades[p],
                                 position |-> b.positions[p],
                                 pnl      |-> b.pnls[p],
                                 tracker  |-> b.position_trackers[p]],
                                o, max_pos, p)
         IN  MatchAll([orderbooks        |-> [b.orderbooks EXCEPT ![p] = r.book],
                       trades            |-> [b.trades EXCEPT ![p] = r.trades],
                       positions         |-> [b.positions EXCEPT ![p] = r.position],
                       pnls              |-> [b.pnls EXCEPT ![p] = r.pnl],
                       position_trackers |-> [b.position_trackers EXCEPT ![p] = r.tracker]],
                      Tail(orders))

\* the books, trades, positions, pnls and trackers the tick's matching began with
TickBegan ==
    [orderbooks |-> tick_start.orderbooks, trades |-> tick_start.trades,
     positions |-> tick_start.positions, pnls |-> tick_start.pnls,
     position_trackers |-> tick_start.position_trackers]

\* C18: an order whose symbol is not one of the run's products raises no error and
\* changes nothing: no book, trade list, position, legacy pnl or tracker of any
\* product is modified by it, and an error that ends the matching comes from an
\* order of one of the run's products; once the batch is processed, every product
\* is in the state that matching the batch without the unknown orders gives.
C18_UnknownDropped ==
    /\ (last_match # <<>> /\ last_match.dropped) => Books = last_match.before
    /\ pc = "failed" => (pending # <<>> /\ pending[1].symbol \in Range(products))
    /\ (pc = "matching" /\ pending = <<>>) =>
           Books = MatchAll(TickBegan, GroupByProduct(KnownOrders(tick_start.all_orders)))

\* a batch with an order for an unknown product between two orders that both fill
C18_Witness ==
    /\ pc = "matching"
    /\ pending = <<>>
    /\ \E i \in 2..(Len(tick_start.all_orders) - 1) :
          /\ tick_start.all_orders[i].symbol \notin Range(products)
          /\ \E f \in Range(tick_fills) : f.product = tick_start.all_orders[i - 1].symbol
                                          /\ f.fill.quantity > 0
          /\ \E f \in Range(tick_fills) : f.product = tick_start.all_orders[i + 1].symbol
                                          /\ f.fill.quantity < 0


\* C19: a zero-quantity order is a no-op.  Whatever the book, the trade list, the
\* position and the order's limit price, matching an order of quantity 0 makes no
\* fill and no call to the tracker, removes no book level and no historical trade,
\* and leaves every position, legacy pnl, realized PnL and lot as it was; this
\* is so as well when the limit lookup of the order fails (C16).
C19_ZeroQuantityNoOp ==
    /\ (Matched /\ last_match.order.quantity = 0) =>
           /\ last_match.fills = <<>>
           /\ Books = last_match.before
    /\ (pc = "failed" /\ pending[1] = tick_start.all_orders[1]
            /\ pending[1].quantity = 0) =>
           Books = TickBegan

\* a zero-quantity order that found room, an open position, bid levels with volume
\* at or above its price and historical trades at or above its price
C19_Witness ==
    /\ Matched
    /\ last_match.order.quantity = 0
    /\ LET o == last_match.order
           b == last_match.before
       IN  /\ b.positions[o.symbol] > 0
           /\ b.position_trackers[o.symbol].long_queue # <<>>
           /\ \E price \in DOMAIN b.orderbooks[o.symbol].buy_orders :
                 price >= o.price /\ b.orderbooks[o.symbol].buy_orders[price] > 0
           /\ \E i \in 1..Len(b.trades[o.symbol]) : b.trades[o.symbol][i].price >= o.price
           /\ Books = b


\* ------------------------------------------------------------------ claims on errors

\* the last entry of a series, or what the series starts from
LastOr(series, start) == IF series = <<>> THEN start ELSE Last(series)

\* C20: a strategy error aborts the run without rollback.  When trader.run raises
\* at a tick, run() is left: every position, legacy pnl and realized PnL
\* is the one recorded at the end of the tick before (zero at the first tick), the
\* open lots are those the last recorded position and unrealized PnL were taken
\* from, every history series holds exactly one entry per tick before, timestamps
\* holds the real timestamps only and no liquidation has been made.  A liquidation
\* is made only once every timestamp has been replayed.
C20_StrategyErrorAborts ==
    /\ pc = "aborted" =>
           /\ k < Len(timestamps)
           /\ SeriesHave(k)
           /\ liquidation = <<>>
           /\ \A i \in 1..(Len(timestamps) - 1) : timestamps[i + 1] > timestamps[i] + 1
           /\ \A p \in Range(products) :
                 LET t == position_trackers[p]
                 IN  /\ positions[p] = LastOr(position_histories[p], 0)
                     /\ pnls[p] = LastOr(pnl_histories[p], 0)
                     /\ t.realized_pnl = LastOr(realized_pnl_histories[p], 0)
                     /\ t.position = positions[p]
                     /\ SumQty(t.long_queue) - SumQty(t.short_queue) = positions[p]
                     /\ k = 0 => t = NewTracker
                     /\ k > 0 =>
                            GetUnrealizedPnl(t, Last(mid_price_histories[p]))
                                = Last(unrealized_pnl_histories[p])
    /\ liquidation # <<>> => (pc = "complete" /\ k + 1 = Len(timestamps))

\* the strategy raises at the second tick, after a first tick that left an open
\* position and a realized PnL
C20_Witness ==
    /\ pc = "aborted"
    /\ k = 1
    /\ \E p \in Range(products) :
          /\ positions[p] # 0
          /\ position_trackers[p].realized_pnl # 0
          /\ position_trackers[p].long_queue # <<>>
          /\ orderbooks[p] # NewOrderBook


\* C21: a data-load failure is fail-fast and all-or-nothing.  When reading a
\* product's price or trade data fails, run() is left before the strategy is called
\* for any tick and before any history entry is appended, and no product is left
\* with a part of its price rows or a part of its trades loaded.
C21_LoadAllOrNothing ==
    pc = "load_failed" =>
        /\ invocations = <<>>
        /\ k = 0
        /\ SeriesHave(0)
        /\ timestamps = <<>>
        /\ \A p \in Range(products) :
              /\ loaded[p].prices \in {"none", "all"}
              /\ loaded[p].trades \in {"none", "all"}


\* ------------------------------------------------------------------ claims on the snapshot

\* C22: the snapshot handed to the strategy is immutable.  The positions and order
\* books it exposes for a tick are the values at the moment it was built: they do
\* not change while the tick's orders are matched.
C22_SnapshotImmutable ==
    tick_start # <<>> =>
        /\ StateObject.positions = tick_start.positions
        /\ StateObject.order_depth = tick_start.orderbooks


\* ------------------------------------------------------------------ claims on the phases

\* the first n timestamps of the run
FirstTimestamps(n) == SubSeq(timestamps, 1, n)

\* Where run() stands agrees with what it has done: nothing before the load ends;
\* while replaying, the strategy has been called once for each of the first k
\* timestamps (k + 1 while the tick's orders are being matched), in increasing
\* order, and every series has the k entries of the ticks completed; liquidation
\* starts only when every timestamp has been replayed and is made only on the way
\* to complete.
PhasesInOrder ==
    /\ pc \in {"loading", "load_failed"} =>
           k = 0 /\ timestamps = <<>> /\ invocations = <<>> /\ liquidation = <<>>
    /\ pc = "replaying" =>
           k < Len(timestamps) /\ invocations = FirstTimestamps(k) /\ liquidation = <<>>
    /\ pc \in {"matching", "failed", "aborted"} =>
           /\ k < Len(timestamps)
           /\ invocations = FirstTimestamps(k + 1)
           /\ liquidation = <<>>
    /\ pc = "liquidating" =>
           k = Len(timestamps) /\ invocations = timestamps /\ liquidation = <<>>
    /\ pc = "complete" =>
           /\ invocations = FirstTimestamps(k)
           /\ k = 0 => (timestamps = <<>> /\ liquidation = <<>>)
           /\ k > 0 => (Len(timestamps) = k + 1 /\ liquidation # <<>>)
    /\ pc # "complete" => SeriesHave(k)
    /\ \A i \in 1..(Len(invocations) - 1) : invocations[i] < invocations[i + 1]

\* C23: run() passes through loading, replaying, liquidating and complete in that
\* order; while replaying the strategy is called exactly once per timestamp, in
\* strictly increasing order, each tick's matching and history append being
\* complete before the next tick starts; liquidation happens only after the last
\* tick; and a run whose strategy returns at every tick reaches complete: once the
\* data is loaded, only an error of the strategy stops run() short of it.
C23_RunPhases ==
    /\ PhasesInOrder
    /\ pc \in {"loading", "load_failed", "replaying", "matching", "aborted",
               "liquidating", "complete"}


\* ------------------------------------------------------------------ claims on the products of a tick

\* the orders in which the run's products can be processed
ProductOrders ==
    {perm \in [1..Len(products) -> Range(products)] :
        \A i, j \in 1..Len(products) : perm[i] = perm[j] => i = j}

\* the orders of a batch taken product by product in the order perm
RECURSIVE Regroup(_, _)
Regroup(orders, perm) ==
    IF perm = <<>> THEN <<>>
    ELSE LET Mine(o) == o.symbol = perm[1]
         IN  SelectSeq(orders, Mine) \o Regroup(orders, Tail(perm))

\* the state of product q in books b
ProductState(b, q) ==
    [book |-> b.orderbooks[q], trades |-> b.trades[q], position |-> b.positions[q],
     pnl |-> b.pnls[q], tracker |-> b.position_trackers[q]]

\* C24: matching an order of product P changes only P's book, P's historical
\* trades, P's position, P's legacy pnl and P's tracker; every other product's
\* state is left unchanged.  Consequently, once the orders of a tick are matched,
\* every product is in the state that processing the products in any other order
\* gives.
C24_ProductIndependence ==
    /\ Matched =>
           \A q \in Range(products) \ {last_match.order.symbol} :
               ProductState(Books, q) = ProductState(last_match.before, q)
    /\ (pc = "matching" /\ pending = <<>>) =>
           \A perm \in ProductOrders :
               Books = MatchAll(TickBegan, Regroup(KnownOrders(tick_start.all_orders), perm))

\* the orders of a tick filled for two products, the second product of the run first
C24_Witness ==
    /\ pc = "matching"
    /\ pending = <<>>
    /\ Len(products) = 2
    /\ Len(tick_fills) >= 2
    /\ tick_fills[1].product = products[2]
    /\ tick_fills[Len(tick_fills)].product = products[1]
    /\ positions[products[1]] # tick_start.positions[products[1]]
    /\ positions[products[2]] # tick_start.positions[products[2]]


\* ------------------------------------------------------------------ claims on empty batches

\* C26: a tick for which the strategy returns no orders raises no error and leaves
\* every position, legacy pnl, lot queue, realized PnL and historical trade
\* unchanged: the step that calls the strategy changes none of them and leaves no
\* order to match, and the next step of the run is the tick's tail, which changes
\* none of them and appends exactly one entry to every series (the unchanged
\* position, legacy pnl and realized PnL).  The same holds product by product: at
\* the tail of any tick, a product for which the strategy gave no order has the
\* book, trades, position, legacy pnl and tracker it had when the tick began.
C26_EmptyOrdersTolerated ==
    [][/\ (pc = "replaying" /\ pc' = "matching" /\ tick_start'.all_orders = <<>>) =>
              /\ pending' = <<>>
              /\ positions' = positions
              /\ pnls' = pnls
              /\ position_trackers' = position_trackers
       /\ (pc = "matching" /\ tick_start.all_orders = <<>>) =>
              /\ pc' \in {"replaying", "liquidating"}
              /\ trades = tick_start.trades
              /\ orderbooks = tick_start.orderbooks
              /\ positions' = positions
              /\ pnls' = pnls
              /\ position_trackers' = position_trackers
              /\ k' = k + 1
              /\ SeriesHave(k)'
              /\ \A p \in Range(products) :
                    /\ Last(position_histories'[p]) = positions[p]
                    /\ Last(pnl_histories'[p]) = pnls[p]
                    /\ Last(realized_pnl_histories'[p]) = position_trackers[p].realized_pnl
       /\ (pc = "matching" /\ pc' \in {"replaying", "liquidating"}) =>
              \A p \in Range(products) :
                 (\A i \in 1..Len(tick_start.all_orders) :
                        tick_start.all_orders[i].symbol # p) =>
                     /\ ProductState(Books, p) = ProductState(TickBegan, p)
                     /\ positions'[p] = tick_start.positions[p]
                     /\ pnls'[p] = tick_start.pnls[p]
                     /\ position_trackers'[p] = tick_start.position_trackers[p]
                     /\ Len(position_histories'[p]) = Len(position_histories[p]) + 1
      ]_vars

\* the strategy returns no orders at a tick that has historical trades, with an
\* open position and a realized PnL from the tick before
C26_Witness ==
    /\ pc = "matching"
    /\ tick_start # <<>>
    /\ tick_start.all_orders = <<>>
    /\ k = 1
    /\ \E p \in Range(products) :
          /\ trades[p] # <<>>
          /\ positions[p] # 0
          /\ position_trackers[p].realized_pnl # 0


\* ------------------------------------------------------------------ claims on the order of crossing

\* the side of book the order o crosses
CrossedSide(o, book) == IF o.quantity > 0 THEN book.sell_orders ELSE book.buy_orders

\* the quantity the last order may fill: its size held to its room
FillableOfLast ==
    LET o == last_match.order
    IN  QtyToFill(o, MaxAllowed(o, last_match.before.positions[o.symbol],
                                LimitInForce(o.symbol, max_pos)))

\* what the fills of one order took of the trade id
RECURSIVE TakenOfTrade(_, _)
TakenOfTrade(fills, id) ==
    IF fills = <<>> THEN 0
    ELSE (IF fills[1].source = "trade" /\ fills[1].ref = id
          THEN Abs(fills[1].quantity) ELSE 0)
         + TakenOfTrade(Tail(fills), id)

\* C27: for each order, the fills against historical trades come after every book
\* fill and only once the book has no eligible volume left; each is for no more
\* than the quantity still unfilled and takes min(unfilled, trade quantity) of a
\* trade whose price is within the order's limit; and the trades are taken in
\* their list order: a trade is touched only when every eligible trade before it in
\* the list is used up, whatever the prices.
C27_TradesAfterBook ==
    Matched =>
        LET o      == last_match.order
            p      == o.symbol
            fills  == last_match.fills
            listed == last_match.before.trades[p]
            At(i)  == IndexOfId(listed, fills[i].ref)
        IN  \A i \in 1..Len(fills) :
               fills[i].source = "trade" =>
                  /\ \A j \in (i + 1)..Len(fills) : fills[j].source = "trade"
                  /\ LET left == CrossedSide(o, orderbooks[p])
                     IN  SumVolumes(left, Eligible(o, left)) = 0
                  /\ At(i) # 0
                  /\ TradeCrosses(o, listed[At(i)])
                  /\ Abs(fills[i].quantity) > 0
                  /\ Abs(fills[i].quantity) =
                        Min(FillableOfLast - FilledTotal(SubSeq(fills, 1, i - 1)),
                            listed[At(i)].quantity)
                  /\ \A j \in 1..(i - 1) : fills[j].source = "trade" => At(j) < At(i)
                  /\ \A x \in 1..(At(i) - 1) :
                        TradeCrosses(o, listed[x]) =>
                           TakenOfTrade(fills, listed[x].id) = listed[x].quantity

\* a sell order has emptied the bids within its limit and then taken part of the
\* first listed trade, while a later trade with a better price is left whole
C27_Witness ==
    /\ Matched
    /\ last_match.order.quantity < 0
    /\ LET o      == last_match.order
           p      == o.symbol
           fills  == last_match.fills
           listed == last_match.before.trades[p]
       IN  /\ Len(listed) = 2
           /\ TradeCrosses(o, listed[2])
           /\ listed[2].price > listed[1].price
           /\ trades[p] # <<>>
           /\ Last(trades[p]) = listed[2]
           /\ \E i, j \in 1..Len(fills) :
                 /\ i < j
                 /\ fills[i].source = "book"
                 /\ fills[j].source = "trade"
                 /\ fills[j].ref = listed[1].id


\* ------------------------------------------------------------------ claims on the orders of one tick

\* the orders of product p in a list, in the list's order
OrdersOf(orders, p) == LET Mine(o) == o.symbol = p IN SelectSeq(orders, Mine)

\* the fills of the tick made before the last order was matched
PriorFills == SubSeq(tick_fills, 1, Len(tick_fills) - Len(last_match.fills))

\* the signed quantity the fills gave product p
RECURSIVE SignedFilled(_, _)
SignedFilled(fills, p) ==
    IF fills = <<>> THEN 0
    ELSE (IF fills[1].product = p THEN fills[1].fill.quantity ELSE 0)
         + SignedFilled(Tail(fills), p)

\* what the fills of side sign (1 buys, -1 sells) took of the book level x of product p
RECURSIVE TakenAt(_, _, _, _)
TakenAt(fills, p, x, sign) ==
    IF fills = <<>> THEN 0
    ELSE (IF /\ fills[1].product = p
             /\ fills[1].fill.source = "book"
             /\ fills[1].fill.ref = x
             /\ fills[1].fill.quantity * sign > 0
          THEN Abs(fills[1].fill.quantity) ELSE 0)
         + TakenAt(Tail(fills), p, x, sign)

\* a side of a book less what the fills took of it; a level taken to zero is gone
LevelsLess(levels, fills, p, sign) ==
    [x \in {y \in DOMAIN levels :
                TakenAt(fills, p, y, sign) = 0 \/ TakenAt(fills, p, y, sign) < levels[y]} |->
        levels[x] - TakenAt(fills, p, x, sign)]

\* C28: the orders of one product in a tick are matched in the order the strategy
\* gave them, and each meets what the orders before it left: the position it finds
\* is the tick's starting position plus the earlier fills, the book levels and the
\* historical trades it finds are those of the tick's start less what the earlier
\* fills took, and it fills the least of its size, its room at that position and
\* the liquidity it finds within its price.
C28_NoSnapshotIsolation ==
    tick_start # <<>> =>
        /\ \A p \in Range(products) :
              LET given == OrdersOf(tick_start.all_orders, p)
                  rest  == OrdersOf(pending, p)
                  done  == Len(given) - Len(rest)
              IN  /\ done >= 0
                  /\ rest = SubSeq(given, done + 1, Len(given))
                  /\ (Matched /\ last_match.order.symbol = p) =>
                         (done >= 1 /\ given[done] = last_match.order)
        /\ Matched =>
              LET o     == last_match.order
                  p     == o.symbol
                  found == last_match.before
              IN  /\ found.positions[p] = tick_start.positions[p] + SignedFilled(PriorFills, p)
                  /\ found.orderbooks[p].sell_orders =
                         LevelsLess(tick_start.orderbooks[p].sell_orders, PriorFills, p, 1)
                  /\ found.orderbooks[p].buy_orders =
                         LevelsLess(tick_start.orderbooks[p].buy_orders, PriorFills, p, -1)
                  /\ found.trades[p] = Remainders(tick_start.trades[p], PriorFills, p)
                  /\ FilledTotal(last_match.fills) = FillUnder(LimitInForce(p, max_pos))

\* the second buy of a product in a tick finds a position, a book and a trade list
\* changed by the first, and fills less than the liquidity of the tick's start
\* would have given it
C28_Witness ==
    /\ Matched
    /\ tick_start # <<>>
    /\ LET o     == last_match.order
           p     == o.symbol
           found == last_match.before
           room  == LimitInForce(p, max_pos) - found.positions[p]
       IN  /\ o.quantity > 0
           /\ Len(OrdersOf(tick_start.all_orders, p)) = 2
           /\ OrdersOf(tick_start.all_orders, p)[2] = o
           /\ found.positions[p] # tick_start.positions[p]
           /\ found.orderbooks[p] # tick_start.orderbooks[p]
           /\ found.trades[p] # tick_start.trades[p]
           /\ last_match.fills # <<>>
           /\ FilledTotal(last_match.fills) = Liquidity(o, found)
           /\ FilledTotal(last_match.fills) < Min(Min(o.quantity, room), Liquidity(o, TickBegan))


\* ------------------------------------------------------------------ claims on conservation

\* the total volume of a side of a book
VolumeOf(levels) == SumVolumes(levels, DOMAIN levels)

\* the total quantity of a list of trades
RECURSIVE QuantityOf(_)
QuantityOf(list) == IF list = <<>> THEN 0 ELSE list[1].quantity + QuantityOf(Tail(list))

\* the fills of product p among the tick's fills
FillsOf(fills, p) ==
    LET Mine(f) == f.product = p
        mine    == SelectSeq(fills, Mine)
    IN  [i \in 1..Len(mine) |-> mine[i].fill]

\* C29: at every point of a tick and for every product, the position (the
\* tracker's as well) has changed since the tick's start by the sum of the signed
\* fills passed to the tracker; the quantity filled is the volume gone from the ask
\* levels, plus the volume gone from the bid levels, plus the quantity gone from the
\* historical trades; and no fill is larger than the volume the order found at the
\* level or the quantity it found in the trade.
C29_MatchedQuantityConserved ==
    tick_start # <<>> =>
        /\ \A p \in Range(products) :
              LET began == tick_start.orderbooks[p]
                  book  == orderbooks[p]
                  mine  == FillsOf(tick_fills, p)
              IN  /\ positions[p] - tick_start.positions[p] = SignedFilled(tick_fills, p)
                  /\ position_trackers[p].position - tick_start.position_trackers[p].position
                        = SignedFilled(tick_fills, p)
                  /\ FilledTotal(mine) =
                          (VolumeOf(began.sell_orders) - VolumeOf(book.sell_orders))
                        + (VolumeOf(began.buy_orders) - VolumeOf(book.buy_orders))
                        + (QuantityOf(tick_start.trades[p]) - QuantityOf(trades[p]))
                  /\ \A i \in 1..Len(mine) :
                        mine[i].source = "book" =>
                           IF mine[i].quantity > 0
                           THEN VolumeOf(began.sell_orders) - VolumeOf(book.sell_orders)
                                   >= Abs(mine[i].quantity)
                           ELSE VolumeOf(began.buy_orders) - VolumeOf(book.buy_orders)
                                   >= Abs(mine[i].quantity)
        /\ Matched =>
              LET o     == last_match.order
                  p     == o.symbol
                  found == last_match.before
                  side  == CrossedSide(o, found.orderbooks[p])
              IN  \A i \in 1..Len(last_match.fills) :
                     LET f == last_match.fills[i]
                     IN  /\ f.quantity * Side(o) > 0
                         /\ f.source = "book" =>
                               (f.ref \in DOMAIN side /\ Abs(f.quantity) <= side[f.ref])
                         /\ f.source = "trade" =>
                               /\ IndexOfId(found.trades[p], f.ref) # 0
                               /\ Abs(f.quantity) <=
                                     found.trades[p][IndexOfId(found.trades[p], f.ref)].quantity

\* the orders of a tick have sold and bought one product, against book levels and
\* against a historical trade
C29_Witness ==
    /\ tick_start # <<>>
    /\ pc = "matching"
    /\ pending = <<>>
    /\ \E p \in Range(products) :
          LET mine == FillsOf(tick_fills, p)
          IN  /\ \E i, j \in 1..Len(mine) : mine[i].quantity < 0 /\ mine[j].quantity > 0
              /\ \E i, j \in 1..Len(mine) : mine[i].source = "book" /\ mine[j].source = "trade"
              /\ positions[p] # tick_start.positions[p]
              /\ VolumeOf(orderbooks[p].sell_orders) < VolumeOf(tick_start.orderbooks[p].sell_orders)
              /\ QuantityOf(trades[p]) < QuantityOf(tick_start.trades[p])


\* ------------------------------------------------------------------ claims on the lots

\* the queue a fill of signed quantity q opens lots in, and the one it closes lots of
SameDirection(t, q) == IF q > 0 THEN t.long_queue ELSE t.short_queue

Opposite(t, q) == IF q > 0 THEN t.short_queue ELSE t.long_queue

\* C30: a fill that leaves quantity after the opposite queue is drained (or finds
\* the opposite queue empty) appends exactly one lot (leftover quantity, fill price)
\* at the tail of the queue of its own direction; the lots already there keep their
\* quantities, entry prices and order, and are not merged with the new lot, also
\* when its entry price is the tail lot's.  A fill that leaves nothing appends no lot.
C30_LotsAppendedNeverMerged ==
    last_call # <<>> =>
        LET q        == last_call[1]
            price    == last_call[2]
            leftover == Abs(q) - SumQty(Opposite(prev_tracker, q))
            was      == SameDirection(prev_tracker, q)
            is       == SameDirection(tracker, q)
        IN  IF leftover > 0
            THEN /\ Len(is) = Len(was) + 1
                 /\ SubSeq(is, 1, Len(was)) = was
                 /\ is[Len(is)] = <<leftover, price>>
                 /\ Opposite(tracker, q) = <<>>
            ELSE is = was

\* a buy at the entry price of the tail long lot: a second lot at that price
C30_Witness ==
    /\ last_call # <<>>
    /\ last_call[1] > 0
    /\ prev_tracker.long_queue # <<>>
    /\ prev_tracker.long_queue[Len(prev_tracker.long_queue)][2] = last_call[2]
    /\ Len(tracker.long_queue) = Len(prev_tracker.long_queue) + 1
    /\ tracker.long_queue[Len(tracker.long_queue)] = last_call


\* ------------------------------------------------------------------ claims on exact closes

\* reference prices an unrealized PnL is asked at, in money units
ReferencePrices == {0, Px(100), Px(104) + 1, Px(110), Px(FALLBACK_PRICE)}

\* C31: a fill (a buy or a sell, of non-zero quantity) whose quantity equals the
\* total open quantity of the opposite queue leaves both queues empty, the position
\* exactly 0 and get_unrealized_pnl exactly 0 at every reference price: no
\* zero-quantity lot remains and no new lot is opened.
C31_ExactClose ==
    (/\ last_call # <<>>
     /\ last_call[1] # 0
     /\ Abs(last_call[1]) = SumQty(Opposite(prev_tracker, last_call[1]))) =>
        /\ tracker.long_queue = <<>>
        /\ tracker.short_queue = <<>>
        /\ tracker.position = 0
        /\ \A p \in ReferencePrices : GetUnrealizedPnl(tracker, p) = 0

\* a buy of 10 on two short lots of 5 with different entry prices
C31_Witness ==
    /\ last_call # <<>>
    /\ last_call[1] = 10
    /\ Len(prev_tracker.short_queue) = 2
    /\ SumQty(prev_tracker.short_queue) = 10
    /\ prev_tracker.short_queue[1][2] # prev_tracker.short_queue[2][2]
    /\ tracker.long_queue = <<>>
    /\ tracker.short_queue = <<>>
    /\ tracker.position = 0
    /\ tracker.realized_pnl # prev_tracker.realized_pnl

\* C32: every lot held in long_queue or short_queue has a strictly positive
\* quantity, after any sequence of add_trade calls, zero-quantity fills and partial
\* closes included.
C32_LotsPositive ==
    /\ \A i \in 1..Len(tracker.long_queue) : tracker.long_queue[i][1] > 0
    /\ \A i \in 1..Len(tracker.short_queue) : tracker.short_queue[i][1] > 0

\* a zero-quantity fill after a partial close of the head long lot
C32_Witness ==
    /\ calls >= 3
    /\ last_call[1] = 0
    /\ Len(tracker.long_queue) = 1
    /\ tracker.long_queue[1][1] = 5
    /\ tracker.short_queue = <<>>
    /\ tracker.realized_pnl # 0


\* ------------------------------------------------------------------ claims on the book across ticks

\* C33: the tail of a tick leaves every book as the tick's matching left it, and
\* the head of the next tick rebuilds the book of a product exactly when the
\* product has a row at that tick; the book of a product without a row is, when
\* the tick's matching starts, the book the tick before left, levels depleted or
\* removed by that tick's fills included.
C33_BookCarriedForward ==
    [][/\ (pc = "matching" /\ pc' \in {"replaying", "liquidating"}) =>
              orderbooks' = orderbooks
       /\ (pc = "replaying" /\ pc' = "matching") =>
              \A p \in Range(products) :
                 IF prices'[p] = <<>>
                 THEN /\ orderbooks'[p] = orderbooks[p]
                      /\ tick_start'.orderbooks[p] = orderbooks[p]
                 ELSE ExactlyRow(orderbooks'[p], prices'[p][1])
      ]_vars

\* the second tick has no row for a product whose asks the first tick's fills
\* depleted: its matching starts from a book that no row gives
C33_Witness ==
    /\ pc = "matching"
    /\ tick_start # <<>>
    /\ k = 1
    /\ \E p \in Range(products) :
          /\ prices[p] = <<>>
          /\ tick_start.orderbooks[p] = tick_start.rebuilt_from[p]
          /\ tick_start.orderbooks[p] # NewOrderBook
          /\ \A row \in Rows : tick_start.orderbooks[p] # UpdateFromPriceRow(NewOrderBook, row)
          /\ position_histories[p][1] # 0


\* ------------------------------------------------------------------ claims on the histories

\* the sum over the products of the entries at index i of the per-product series
SumAt(series, i) == SumOver([p \in Range(products) |-> series[p][i]], products)

\* C34: at every history index, the liquidation entry included, every product's
\* total PnL is its realized PnL plus its unrealized PnL, and each run-wide entry
\* (realized, unrealized, total) is the sum over the products of the per-product
\* entries at that index.
C34_HistoriesConsistent ==
    /\ \A p \in Range(products) :
          /\ Len(realized_pnl_histories[p]) = Len(total_pnl_histories[p])
          /\ Len(unrealized_pnl_histories[p]) = Len(total_pnl_histories[p])
          /\ \A i \in 1..Len(total_pnl_histories[p]) :
                total_pnl_histories[p][i] =
                   realized_pnl_histories[p][i] + unrealized_pnl_histories[p][i]
    /\ \A p \in Range(products) : Len(total_pnl_histories[p]) = Len(overall_pnl_history)
    /\ Len(overall_realized_pnl_history) = Len(overall_pnl_history)
    /\ Len(overall_unrealized_pnl_history) = Len(overall_pnl_history)
    /\ \A i \in 1..Len(overall_pnl_history) :
          /\ overall_realized_pnl_history[i] = SumAt(realized_pnl_histories, i)
          /\ overall_unrealized_pnl_history[i] = SumAt(unrealized_pnl_histories, i)
          /\ overall_pnl_history[i] = SumAt(total_pnl_histories, i)

\* a completed run of two products, each with an unrealized PnL at the first tick
\* and a realized PnL at the liquidation entry
C34_Witness ==
    /\ pc = "complete"
    /\ Len(products) = 2
    /\ Len(overall_pnl_history) >= 2
    /\ \A p \in Range(products) :
          /\ unrealized_pnl_histories[p][1] # 0
          /\ Last(realized_pnl_histories[p]) # 0
    /\ overall_pnl_history[1] # total_pnl_histories[products[1]][1]


\* ------------------------------------------------------------------ claims on the two bookkeeping paths

\* C35: at liquidation the legacy pnl of a product changes by the cash flow of the
\* closing fill, +position * mid for a long position sold and -|position| * mid
\* for a short position bought back, so that after liquidation the legacy pnl
\* equals the tracker's realized PnL for every product.
C35_PathsAgreeAtEnd ==
    (pc = "complete" /\ liquidation # <<>>) =>
        \A p \in Range(products) :
           /\ pnls[p] = liquidation.before.pnls[p]
                           + liquidation.before.positions[p] * liquidation.mid[p]
           /\ pnls[p] = position_trackers[p].realized_pnl


\* C36: during the replay, after every fill and at every reference price p, the
\* tracker's realized PnL plus its unrealized PnL at p equals the legacy pnl (the
\* cash paid and received over all fills) plus the position marked at p; in
\* particular the legacy pnl equals the realized PnL whenever the position is 0.
C36_AccountingIdentity ==
    pc \in {"replaying", "matching", "failed", "aborted", "liquidating"} =>
        \A q \in Range(products) :
           /\ \A p \in ReferencePrices :
                 position_trackers[q].realized_pnl + GetUnrealizedPnl(position_trackers[q], p)
                    = pnls[q] + positions[q] * p
           /\ positions[q] = 0 => pnls[q] = position_trackers[q].realized_pnl

\* a product has sold against a historical trade and bought part of it back: it
\* holds a position and a realized PnL
C36_Witness ==
    /\ Matched
    /\ pc = "matching"
    /\ LET q == last_match.order.symbol
       IN  /\ \E i \in 1..Len(tick_fills) :
                 /\ tick_fills[i].product = q
                 /\ tick_fills[i].fill.source = "trade"
                 /\ tick_fills[i].fill.quantity < 0
           /\ last_match.order.quantity > 0
           /\ last_match.fills # <<>>
           /\ position_trackers[q].realized_pnl # 0
           /\ positions[q] # 0
           /\ pnls[q] # position_trackers[q].realized_pnl


\* C37: the legacy position and the tracker's position never diverge: in every
\* state of a run, after each fill, at each history append and after the
\* liquidation, positions[product] = position_trackers[product].position for
\* every product.
C37_PositionsAgree ==
    \A p \in Range(products) : positions[p] = position_trackers[p].position

\* a completed run that liquidated a product whose position moved in both
\* directions during its last tick
C37_Witness ==
    /\ pc = "complete"
    /\ liquidation # <<>>
    /\ \E p \in Range(products) :
          /\ liquidation.before.positions[p] # 0
          /\ liquidation.before.position_trackers[p].realized_pnl # 0
          /\ liquidation.calls[p] # <<>>
          /\ positions[p] = 0
          /\ position_trackers[p].position = 0


\* ------------------------------------------------------------------ claims on the recorded mid price

\* C38: the mid price recorded for a tick is read from the book as the tick's
\* matching left it, the fallback constant when the fills emptied a side, and the
\* unrealized PnL recorded for the tick values the open lots at that price; the
\* liquidation closes each open position at the mid price of the book as the last
\* tick's matching left it.
C38_MidAfterMatching ==
    [][/\ (pc = "matching" /\ pc' \in {"replaying", "liquidating"}) =>
              \A p \in Range(products) :
                 /\ Len(mid_price_histories'[p]) = Len(mid_price_histories[p]) + 1
                 /\ Last(mid_price_histories'[p]) * 2 = TwiceMid(orderbooks[p]) * PriceScale
                 /\ Last(unrealized_pnl_histories'[p]) =
                       GetUnrealizedPnl(position_trackers[p], Last(mid_price_histories'[p]))
       /\ (pc = "liquidating" /\ pc' = "complete" /\ timestamps # <<>>) =>
              \A p \in Range(products) :
                 /\ orderbooks'[p] = orderbooks[p]
                 /\ Last(mid_price_histories'[p]) * 2 = TwiceMid(orderbooks[p]) * PriceScale
                 /\ positions[p] # 0 =>
                       liquidation'.calls[p] =
                          << <<-positions[p], Last(mid_price_histories'[p])>> >>
      ]_vars

\* a run of one tick whose sells emptied the bid side of a product: the fallback
\* constant is recorded for the tick, values the open short lots, and is the price
\* of the closing fill
C38_Witness ==
    /\ pc = "complete"
    /\ liquidation # <<>>
    /\ Len(timestamps) = 2
    /\ \E p \in Range(products) :
          /\ DOMAIN orderbooks[p].buy_orders = {}
          /\ DOMAIN orderbooks[p].sell_orders # {}
          /\ position_histories[p][1] < 0
          /\ mid_price_histories[p][1] = Px(FALLBACK_PRICE)
          /\ unrealized_pnl_histories[p][1] # 0
          /\ liquidation.calls[p] = << <<-position_histories[p][1], Px(FALLBACK_PRICE)>> >>


\* ------------------------------------------------------------------ claims on the replay clock

\* C39: the clock holds only timestamps at which some product has a price row.  The
\* trades loaded at a timestamp that no price file holds are never the trades of a
\* tick and are never changed; at a tick where a product has no row of its own, the
\* trades the loaded data holds for it at that timestamp are the ones its orders
\* meet, against the book the tick before left it.
C39_ClockOfPriceRows ==
    [][/\ pc # "loading" => stray_trades' = stray_trades
       /\ (pc = "loading" /\ pc' # "load_failed") =>
              \A i \in 1..Len(timestamps') : timestamps'[i] \notin TradeOnlyTimestamps
       /\ (pc = "replaying" /\ pc' \in {"matching", "aborted"}) =>
              /\ timestamps[k + 1] \notin TradeOnlyTimestamps
              /\ \E p \in Range(products) : prices'[p] # <<>>
       /\ (pc = "replaying" /\ pc' = "matching") =>
              \A p \in Range(products) :
                 /\ trades'[p] = tick_start'.data.trades[p]
                 /\ prices'[p] = <<>> => orderbooks'[p] = orderbooks[p]
       /\ (pc = "matching" /\ pc' = "matching" /\ pending # <<>>
             /\ pending[1].symbol \in Range(products)) =>
              LET o == pending[1]
                  p == o.symbol
              IN  /\ last_match'.order = o
                  /\ last_match'.before = Books
                  /\ FilledTotal(last_match'.fills)
                        = (IF (IF o.quantity > 0
                               THEN LimitInForce(p, max_pos) - positions[p]
                               ELSE positions[p] + LimitInForce(p, max_pos)) <= 0
                           THEN 0
                           ELSE Min(Min(Abs(o.quantity),
                                        IF o.quantity > 0
                                        THEN LimitInForce(p, max_pos) - positions[p]
                                        ELSE positions[p] + LimitInForce(p, max_pos)),
                                    Liquidity(o, Books)))
      ]_vars

\* at the second tick of a run whose trades files hold a timestamp of their own, a
\* product without a row at the tick has filled an order against a historical
\* trade of the tick and against the book the first tick left it, while another
\* product has a row; the trades of the timestamp outside the clock are untouched
C39_Witness ==
    /\ Matched
    /\ tick_start # <<>>
    /\ k = 1
    /\ stray_trades[products[1]] = TradesTwin
    /\ \A i \in 1..Len(timestamps) : timestamps[i] \notin TradeOnlyTimestamps
    /\ LET p == last_match.order.symbol
       IN  /\ prices[p] = <<>>
           /\ \E q \in Range(products) : prices[q] # <<>>
           /\ tick_start.orderbooks[p] = tick_start.rebuilt_from[p]
           /\ tick_start.orderbooks[p] # NewOrderBook
           /\ \E i, j \in 1..Len(last_match.fills) :
                 /\ last_match.fills[i].source = "book"
                 /\ last_match.fills[j].source = "trade"

====
